---- MODULE Spec2Model ----
(***************************************************************************)
(* Model of tidy3d's grid generation: the per-axis strategies and          *)
(* GridSpec.make_grid (tidy3d/components/grid/grid_spec.py), the name,     *)
(* size and mode plane validators (tidy3d/components/validators.py), and   *)
(* DispersionFitter.fit (tidy3d/plugins/dispersion/fit.py).                *)
(* Five specifications share the variables: Spec calls make_coords and     *)
(* _add_pml_to_bounds on one axis, SpecPure calls the functions that       *)
(* read nothing but their argument, SpecGrid runs make_grid statement by   *)
(* statement and compares the call with further calls, SpecFit runs the    *)
(* attempts of fit one by one, and SpecPad runs the padding loops of       *)
(* _postprocess_unaligned_grid pass by pass.                               *)
(*                                                                         *)
(* Numbers.  A coordinate is an integer number of model length units.      *)
(* One unit is finer than the float32 spacing at the domain edge, so the   *)
(* band [bound_min, bound_max] that np.nextafter(..., dtype=float32)       *)
(* opens around the domain is Ulp32 units wider than the domain on each    *)
(* side, and np.isclose accepts a difference of at most CloseTol units.    *)
(* Arithmetic is exact; the inputs are restricted to those for which the   *)
(* divisions of the code (size / 2, size / 4, size / num_cells,            *)
(* sum(dl) / 2) have no remainder.  SpecPad alone rounds the sums of the   *)
(* loops as floating-point arithmetic does (fl).                           *)
(*                                                                         *)
(* A numpy array is a sequence; Python's 0-based index i is i + 1 here.    *)
(* A call returns a record [status, coords]: status "ok" with the array,   *)
(* or the name of the exception the call raises.                           *)
(***************************************************************************)
EXTENDS Integers, Sequences, FiniteSets, TLC

VARIABLES
    pc,        \* "idle": no call in progress; "done": a call has returned
    op,        \* the function that was called
    grid,      \* the GridSpec1d the call was made on (its stored fields)
    box,       \* structures[0].geometry along the axis: [center, size]
    symmetry,  \* symmetry[axis]
    num_pml_layers, \* the pair of absorber layer counts
    periodic,  \* the periodic flag passed to make_coords
    wavelength, \* the free-space wavelength passed to make_coords
    unaligned, \* the bound_coords handed to _postprocess_unaligned_grid
    mesh,      \* what the mesher handed to AutoGrid: intervals, ceilings, steps
    initial,   \* what _make_coords_initial returned (or raised)
    ret,       \* what the call returned (or raised)
    arg,       \* the argument of a call of a property or validator
    result,    \* what that call returned (or raised)
    request,   \* make_grid: the GridSpec and the arguments, as they were passed
    grid_spec, \* make_grid: the GridSpec object's stored fields, as they are now
    progress,  \* make_grid: its local variables and the warnings logged so far
    outcome,   \* make_grid: what the call returned (or raised)
    compared,  \* make_grid: another call, and what it returned (or raised)
    fit,       \* DispersionFitter.fit: its arguments, local variables, attempts
    padding    \* _postprocess_unaligned_grid: the padding loops, pass by pass

\* the state of a make_coords or _add_pml_to_bounds call
coords_vars == <<grid, box, symmetry, num_pml_layers, periodic, wavelength, unaligned,
                 mesh, initial, ret>>

\* the state of a call of a property or validator
call_vars == <<arg, result>>

\* the state of a make_grid call
grid_vars == <<request, grid_spec, progress, outcome, compared>>

\* the state of a call that is followed through its loop
loop_vars == <<fit, padding>>

vars == <<pc, op, coords_vars, call_vars, grid_vars, loop_vars>>

----------------------------------------------------------------------------
(* Bounds of the model *)

MaxPml == 3        \* absorber layers per side in a direct call: 0..MaxPml
MaxLen == 3        \* supplied boundaries / cell sizes per custom grid
MaxDl == 9         \* UniformGrid.dl in 1..MaxDl

CoordRange == -6..6            \* supplied boundaries lie here

Centers == {0, 1}
Sizes == {0, 4, 8}             \* multiples of 4: size / 2 and size / 4 are exact
Symmetries == {0, 1, -1}
Layers == 0..MaxPml

\* the layer counts make_coords is called with
LayerPairs == {<<0, 0>>, <<1, 1>>, <<0, 2>>, <<2, 0>>, <<2, 1>>}

CustomSteps == 1..3            \* CustomGrid.dl entries
CustomOffsets == {-7, -5, -3, 0}

AutoSizes == {0, 16, 24}
AutoInner == {0, 4, 7}        \* where a structure edge may split the domain
Ceilings == {4, 6, 9}          \* max_dl of an interval
MaxScales == {<<7, 5>>, <<3, 2>>}   \* AutoGrid.max_scale: 1.4 and 1.5
MinStepsPerWvl == {6, 10}      \* AutoGrid.min_steps_per_wvl
Wavelengths == {60}

(* float32 spacing at the domain edge, in model units *)
Ulp32 == 1
(* the difference np.isclose accepts (atol + rtol * |b|), in model units *)
CloseTol == 2

----------------------------------------------------------------------------
(* Arrays *)

Abs(x) == IF x < 0 THEN -x ELSE x

Last(s) == s[Len(s)]

StrictlyIncreasing(s) == \A i \in 1..(Len(s) - 1) : s[i] < s[i + 1]

\* the cell widths of a boundary array
Widths(s) == [i \in 1..(Len(s) - 1) |-> s[i + 1] - s[i]]

Shift(s, d) == [i \in 1..Len(s) |-> s[i] + d]

RECURSIVE Sum(_)
Sum(s) == IF s = <<>> THEN 0 ELSE s[1] + Sum(Tail(s))

\* np.cumsum
cumsum(s) == [i \in 1..Len(s) |-> Sum(SubSeq(s, 1, i))]

\* Python's a[start:stop] for 0-based start, stop; a negative index counts
\* from the end
PySlice(a, start, stop) ==
    LET n == Len(a)
        norm(k) == IF k < 0 THEN (IF k + n < 0 THEN 0 ELSE k + n)
                   ELSE (IF k > n THEN n ELSE k)
    IN SubSeq(a, norm(start) + 1, norm(stop))

\* np.searchsorted(a, v, side="right"): the number of entries <= v
searchsorted_right(a, v) == Cardinality({i \in 1..Len(a) : a[i] <= v})

\* np.argmin(np.abs(center - a)), 1-based: the first index of the minimum
argmin_abs(center, a) ==
    CHOOSE i \in 1..Len(a) :
        /\ \A j \in 1..Len(a) : Abs(center - a[i]) <= Abs(center - a[j])
        /\ \A j \in 1..(i - 1) : Abs(center - a[i]) < Abs(center - a[j])

isclose(a, b) == Abs(a - b) <= CloseTol

Ok(coords) == [status |-> "ok", coords |-> coords]
Raise(exc) == [status |-> exc, coords |-> <<>>]

----------------------------------------------------------------------------
(* GridSpec1d._add_pml_to_bounds *)

\* a faulty variant: the appended cells repeat the first step, not the last
add_pml_first_step_both_sides(num_layers, bounds) ==
    IF Len(bounds) < 2 THEN bounds
    ELSE LET first_step == bounds[2] - bounds[1]
             add_left == [i \in 1..num_layers[1] |->
                             bounds[1] - first_step * (num_layers[1] + 1 - i)]
             add_right == [i \in 1..num_layers[2] |-> Last(bounds) + first_step * i]
         IN add_left \o bounds \o add_right

_add_pml_to_bounds(num_layers, bounds) ==
    IF Len(bounds) < 2 THEN bounds
    ELSE LET first_step == bounds[2] - bounds[1]
             last_step == Last(bounds) - bounds[Len(bounds) - 1]
             add_left == [i \in 1..num_layers[1] |->
                             bounds[1] - first_step * (num_layers[1] + 1 - i)]
             add_right == [i \in 1..num_layers[2] |-> Last(bounds) + last_step * i]
         IN add_left \o bounds \o add_right

----------------------------------------------------------------------------
(* UniformGrid._make_coords_initial *)

\* int(np.ceil(size / dl)) for size >= 0, dl > 0
ceil_div(size, dl) == (size + dl - 1) \div dl

\* a faulty variant: the boundaries start at the center, not at the lower edge
uniform_coords_from_center(dl, center, size) ==
    LET num_cells0 == (size + dl - 1) \div dl
        num_cells == IF num_cells0 > 1 THEN num_cells0 ELSE 1
        dl_snapped == IF size > 0 THEN size \div num_cells ELSE dl
    IN Ok([i \in 1..(num_cells + 1) |-> center + (i - 1) * dl_snapped])

\* a faulty variant: the cell count is rounded down
uniform_coords_floor(dl, center, size) ==
    LET num_cells0 == size \div dl
        num_cells == IF num_cells0 > 1 THEN num_cells0 ELSE 1
        dl_snapped == IF size > 0 THEN size \div num_cells ELSE dl
    IN Ok([i \in 1..(num_cells + 1) |-> center - size \div 2 + (i - 1) * dl_snapped])

UniformGrid_make_coords_initial(dl, center, size) ==
    LET num_cells0 == ceil_div(size, dl)
        num_cells == IF num_cells0 > 1 THEN num_cells0 ELSE 1
        dl_snapped == IF size > 0 THEN size \div num_cells ELSE dl
    IN Ok([i \in 1..(num_cells + 1) |-> center - size \div 2 + (i - 1) * dl_snapped])

\* the inputs whose snapped step size / num_cells is a whole number of units
UniformExact(dl, size) ==
    LET n == ceil_div(size, dl) IN IF size = 0 THEN TRUE ELSE size % n = 0

----------------------------------------------------------------------------
(* GridSpec1d._postprocess_unaligned_grid *)

\* np.nextafter(x, -inf, dtype=np.float32) and np.nextafter(x, inf, ...)
nextafter_down(x) == x - Ulp32
nextafter_up(x) == x + Ulp32

\* a faulty variant: at most one boundary is inserted at the front
pad_front_once(bound_coords, dl_min, bound_min) ==
    IF bound_coords[1] - dl_min >= bound_min
    THEN <<bound_coords[1] - dl_min>> \o bound_coords
    ELSE bound_coords

\* while bound_coords[0] - dl_min >= bound_min: insert at the front
RECURSIVE pad_front(_, _, _)
pad_front(bound_coords, dl_min, bound_min) ==
    IF bound_coords[1] - dl_min >= bound_min
    THEN pad_front(<<bound_coords[1] - dl_min>> \o bound_coords, dl_min, bound_min)
    ELSE bound_coords

\* while bound_coords[-1] + dl_max <= bound_max: append
RECURSIVE pad_back(_, _, _)
pad_back(bound_coords, dl_max, bound_max) ==
    IF Last(bound_coords) + dl_max <= bound_max
    THEN pad_back(Append(bound_coords, Last(bound_coords) + dl_max), dl_max, bound_max)
    ELSE bound_coords

\* a faulty variant: a boundary is added on each side without the check
relax_ends_unchecked(bound_coords, dl_min, dl_max, bound_min, bound_max) ==
    <<bound_coords[1] - dl_min>> \o bound_coords \o <<Last(bound_coords) + dl_max>>

\* the machine_error_relaxation pass
relax_ends(bound_coords, dl_min, dl_max, bound_min, bound_max) ==
    LET front == IF isclose(bound_coords[1] - dl_min, bound_min)
                 THEN <<bound_coords[1] - dl_min>> \o bound_coords
                 ELSE bound_coords
    IN IF isclose(Last(front) + dl_max, bound_max)
       THEN Append(front, Last(front) + dl_max)
       ELSE front

\* the size == 0 branch: the boundaries between which the simulation falls
zero_size_bracket(bound_coords, center) ==
    LET ind0 == searchsorted_right(bound_coords, center)
        ind == IF ind0 >= Len(bound_coords) THEN Len(bound_coords) - 1 ELSE ind0
    IN PySlice(bound_coords, ind - 1, ind + 1)

_postprocess_unaligned_grid(center, size, machine_error_relaxation, bound_coords) ==
    LET bound_min == nextafter_down(center - size \div 2)
        bound_max == nextafter_up(center + size \div 2)
        below_max(x) == x <= bound_max
        above_min(x) == x >= bound_min
        chopped == SelectSeq(SelectSeq(bound_coords, below_max), above_min)
    IN IF bound_coords = <<>> THEN Raise("IndexError")
       ELSE IF bound_max < bound_coords[1] \/ bound_min > Last(bound_coords)
       THEN Raise("SetupError")
       ELSE IF size = 0 THEN Ok(zero_size_bracket(bound_coords, center))
       ELSE IF Len(chopped) < 2 THEN Raise("IndexError")
       ELSE LET dl_min == chopped[2] - chopped[1]
                dl_max == Last(chopped) - chopped[Len(chopped) - 1]
                padded == pad_back(pad_front(chopped, dl_min, bound_min), dl_max, bound_max)
            IN IF machine_error_relaxation
               THEN Ok(relax_ends(padded, dl_min, dl_max, bound_min, bound_max))
               ELSE Ok(padded)

----------------------------------------------------------------------------
(* CustomGridBoundaries._make_coords_initial, CustomGrid._make_coords_initial *)

CustomGridBoundaries_make_coords_initial(coords, center, size) ==
    _postprocess_unaligned_grid(center, size, FALSE, coords)

\* custom_offset is <<>> for None and <<x>> for the offset x.
\* The boundaries CustomGrid builds from its cell sizes
CustomGrid_bound_coords(dl, custom_offset, center) ==
    LET bound_coords == <<0>> \o cumsum(dl)
    IN IF custom_offset = <<>>
       THEN Shift(bound_coords, center - Last(bound_coords) \div 2)
       ELSE Shift(bound_coords, custom_offset[1])

CustomGrid_make_coords_initial(dl, custom_offset, center, size) ==
    _postprocess_unaligned_grid(center, size, custom_offset # <<>>,
                                CustomGrid_bound_coords(dl, custom_offset, center))

----------------------------------------------------------------------------
(* GridSpec1d.make_coords *)

\* a faulty variant: the mirror image is taken about the origin
fold_symmetry_about_origin(center, bound_coords0) ==
    LET center_ind == argmin_abs(center, bound_coords0)
        bound_coords1 == Shift(bound_coords0, center - bound_coords0[center_ind])
        at_or_above(x) == x >= center
        bound_coords == SelectSeq(bound_coords1, at_or_above)
        n == Len(bound_coords)
    IN [i \in 1..(n - 1) |-> 0 - bound_coords[n + 1 - i]] \o bound_coords

\* a faulty variant: the center is mirrored too and appears twice
fold_symmetry_center_twice(center, bound_coords0) ==
    LET center_ind == argmin_abs(center, bound_coords0)
        bound_coords1 == Shift(bound_coords0, center - bound_coords0[center_ind])
        at_or_above(x) == x >= center
        bound_coords == SelectSeq(bound_coords1, at_or_above)
        n == Len(bound_coords)
    IN [i \in 1..n |-> 2 * center - bound_coords[n + 1 - i]] \o bound_coords

\* the symmetry[axis] != 0 branch: offset to the center, keep the upper half,
\* prepend its mirror image
fold_symmetry(center, bound_coords0) ==
    LET center_ind == argmin_abs(center, bound_coords0)
        bound_coords1 == Shift(bound_coords0, center - bound_coords0[center_ind])
        at_or_above(x) == x >= center
        bound_coords == SelectSeq(bound_coords1, at_or_above)
        n == Len(bound_coords)
    IN [i \in 1..(n - 1) |-> 2 * center - bound_coords[n + 1 - i]] \o bound_coords

\* make_coords after _make_coords_initial has returned init
make_coords_from(init, center, sym, num_layers) ==
    IF init.status # "ok" THEN init
    ELSE IF sym # 0 /\ init.coords = <<>> THEN Raise("ValueError")
    ELSE LET bound_coords == IF sym # 0 THEN fold_symmetry(center, init.coords)
                             ELSE init.coords
         IN Ok(_add_pml_to_bounds(num_layers, bound_coords))

----------------------------------------------------------------------------
(* The mesher (tidy3d/components/grid/mesher.py), as the design document   *)
(* describes it: sections 4.1 to 4.3.                                      *)

\* a / b within [1 / max_scale, max_scale]; max_scale is the pair <<num, den>>
RatioOk(a, b, max_scale) ==
    /\ a * max_scale[2] <= b * max_scale[1]
    /\ b * max_scale[2] <= a * max_scale[1]

RECURSIVE Concat(_)
Concat(ss) == IF ss = <<>> THEN <<>> ELSE ss[1] \o Concat(Tail(ss))

\* a cell is wider than any difference np.isclose accepts
MinStep == CloseTol + 2

\* the sequences of steps in lo..hi that sum to total
RECURSIVE Compositions(_, _, _)
Compositions(total, lo, hi) ==
    IF total = 0 THEN {<<>>}
    ELSE UNION {{<<k>> \o rest : rest \in Compositions(total - k, lo, hi)} :
                   k \in {j \in lo..hi : j <= total}}

\* the steps of one interval of length len whose steps sum to total (len, up
\* to the mesher's error): each at most the ceiling max_dl; an interval
\* too short for one full step gets one cell spanning its whole width
IntervalSteps(max_dl, len, total) ==
    IF len < max_dl THEN (IF total = len THEN {<<len>>} ELSE {})
    ELSE Compositions(total, MinStep, max_dl)

RECURSIVE StepLists(_, _, _, _)
StepLists(max_dl_list, len_interval_list, error, i) ==
    IF i > Len(len_interval_list) THEN {<<>>}
    ELSE LET len == len_interval_list[i]
             total == IF i = Len(len_interval_list) THEN len + error ELSE len
         IN {<<steps>> \o rest :
                steps \in IntervalSteps(max_dl_list[i], len, total),
                rest \in StepLists(max_dl_list, len_interval_list, error, i + 1)}

\* GradedMesher.make_grid_multiple_intervals: the dl_list it may return, one
\* sequence of steps per interval; error is by how much the steps of the last
\* interval miss its length
make_grid_multiple_intervals(max_dl_list, len_list, max_scale, periodic_bc, error) ==
    {dl_list \in StepLists(max_dl_list, len_list, error, 1) :
        LET dl == Concat(dl_list)
        IN /\ \A i \in 1..(Len(dl) - 1) : RatioOk(dl[i], dl[i + 1], max_scale)
           /\ periodic_bc => RatioOk(dl[1], Last(dl), max_scale)}

\* GradedMesher.parse_structures followed by insert_snapping_points: the
\* contiguous intervals covering [lo, hi] and their ceilings, as
\* <<interval_coords, max_dl_list>>; one coordinate and no interval when the
\* domain has no extent
parse_structures(lo, hi, inner, ceilings) ==
    IF lo = hi THEN {<<(<<lo>>), <<>>>>}
    ELSE {<<(<<lo, hi>>), <<d>>>> : d \in ceilings}
         \cup {<<(<<lo, x, hi>>), <<d1, d2>>>> :
                  x \in {y \in inner : lo + MinStep <= y /\ y + MinStep <= hi},
                  d1 \in ceilings, d2 \in ceilings}

----------------------------------------------------------------------------
(* AutoGrid._make_coords_initial *)

\* the symmetry-reduced domain along the axis: <<sim_cent, sim_size>>
symmetry_domain(sym, center, size) ==
    IF sym # 0 THEN <<center + size \div 4, size \div 2>> ELSE <<center, size>>

\* symmetry_domain.bounds along the axis
domain_bounds(sym, center, size) ==
    LET d == symmetry_domain(sym, center, size)
    IN <<d[1] - d[2] \div 2, d[1] + d[2] \div 2>>

\* a faulty variant: the running sum starts afresh in every interval
RECURSIVE cumsum_each(_)
cumsum_each(dl_list) ==
    IF dl_list = <<>> THEN <<>> ELSE cumsum(dl_list[1]) \o cumsum_each(Tail(dl_list))

auto_bound_coords_per_interval(interval_coords, dl_list) ==
    Shift(<<0>> \o cumsum_each(dl_list), interval_coords[1])

\* a faulty variant: the leading 0.0 is missing
auto_bound_coords_no_origin(interval_coords, dl_list) ==
    Shift(cumsum(Concat(dl_list)), interval_coords[1])

\* bound_coords = np.append(0.0, np.cumsum(np.concatenate(dl_list)))
\* bound_coords += interval_coords[0]
auto_bound_coords(interval_coords, dl_list) ==
    Shift(<<0>> \o cumsum(Concat(dl_list)), interval_coords[1])

\* a faulty variant: the end points are checked but not set to the domain's
auto_coords_not_snapped(steps_per_wvl, wvl, sym, center, size, interval_coords, dl_list) ==
    LET sim_cent == symmetry_domain(sym, center, size)[1]
        bounds == domain_bounds(sym, center, size)
        bound_coords == auto_bound_coords(interval_coords, dl_list)
    IN IF Len(interval_coords) = 1
       THEN LET dl == wvl \div steps_per_wvl
            IN Ok(<<sim_cent - dl \div 2, sim_cent + dl \div 2>>)
       ELSE IF ~(isclose(bound_coords[1], bounds[1])
                 /\ isclose(Last(bound_coords), bounds[2]))
       THEN Raise("SetupError")
       ELSE Ok(bound_coords)

\* after the mesher has returned dl_list for interval_coords
AutoGrid_make_coords_initial(steps_per_wvl, wvl, sym, center, size, interval_coords, dl_list) ==
    LET sim_cent == symmetry_domain(sym, center, size)[1]
        bounds == domain_bounds(sym, center, size)
        bound_coords == auto_bound_coords(interval_coords, dl_list)
    IN IF Len(interval_coords) = 1
       THEN LET dl == wvl \div steps_per_wvl
            IN Ok(<<sim_cent - dl \div 2, sim_cent + dl \div 2>>)
       ELSE IF ~(isclose(bound_coords[1], bounds[1])
                 /\ isclose(Last(bound_coords), bounds[2]))
       THEN Raise("SetupError")
       ELSE Ok([i \in 1..Len(bound_coords) |->
                   IF i = 1 THEN bounds[1]
                   ELSE IF i = Len(bound_coords) THEN bounds[2]
                   ELSE bound_coords[i]])

----------------------------------------------------------------------------
(* Inputs *)

RECURSIVE SortedSeq(_)
SortedSeq(S) ==
    IF S = {} THEN <<>>
    ELSE LET m == CHOOSE x \in S : \A y \in S : x <= y
         IN <<m>> \o SortedSeq(S \ {m})

\* the strictly increasing arrays of at most MaxLen boundaries
IncreasingArrays ==
    {SortedSeq(S) : S \in {T \in SUBSET CoordRange : Cardinality(T) <= MaxLen}}

\* the tuples of at most MaxLen positive cell sizes
RECURSIVE StepTuples(_)
StepTuples(n) ==
    IF n = 0 THEN {<<>>}
    ELSE StepTuples(n - 1)
         \cup {Append(t, d) : t \in {u \in StepTuples(n - 1) : Len(u) = n - 1},
                              d \in CustomSteps}

\* by how much the mesher's steps may miss the domain edge
MesherErrors == {-(CloseTol + 1), 0, CloseTol, CloseTol + 1}

NoGrid == [type |-> "None"]
NoBox == [center |-> 0, size |-> 0]
NoMesh == [interval_coords |-> <<>>, max_dl_list |-> <<>>, dl_list |-> <<>>,
           bound_coords |-> <<>>]
NoResult == [status |-> "None", val |-> <<>>]
NoRequest == [type |-> "None"]
NoGridSpec == [type |-> "None"]
NoProgress == [wavelength |-> <<>>, inspected |-> FALSE, warnings |-> {},
               coords_dict |-> <<>>, is_periodic |-> <<>>]
NoOutcome == [status |-> "None", raised_by |-> "None", boundaries |-> <<>>]
NoCompared == [kind |-> "None"]
NoFit == [num_tries |-> 0]
NoPadding == [bound_coords |-> <<>>]

----------------------------------------------------------------------------
(* The state machine: calls of make_coords on each kind of GridSpec1d, and *)
(* direct calls of the static helper _add_pml_to_bounds.                   *)

Init ==
    /\ pc = "idle"
    /\ op = "None"
    /\ grid = NoGrid
    /\ box = NoBox
    /\ symmetry = 0
    /\ num_pml_layers = <<0, 0>>
    /\ periodic = FALSE
    /\ wavelength = 0
    /\ unaligned = <<>>
    /\ mesh = NoMesh
    /\ initial = Ok(<<>>)
    /\ ret = Ok(<<>>)
    /\ arg = <<>>
    /\ result = NoResult
    /\ request = NoRequest
    /\ grid_spec = NoGridSpec
    /\ progress = NoProgress
    /\ outcome = NoOutcome
    /\ compared = NoCompared
    /\ fit = NoFit
    /\ padding = NoPadding

\* a faulty variant: the symmetry of the axis is not looked at
is_periodic_with_symmetry(per, sym) == per

\* is_periodic = periodic and symmetry[axis] == 0
is_periodic(per, sym) == per /\ sym = 0

\* make_coords was called on g with these arguments, _make_coords_initial
\* returned init, and the call has completed
make_coords(g, center, size, sym, layers, per, wvl, supplied, m, init) ==
    /\ pc' = "done"
    /\ op' = "make_coords"
    /\ grid' = g
    /\ box' = [center |-> center, size |-> size]
    /\ symmetry' = sym
    /\ num_pml_layers' = layers
    /\ periodic' = per
    /\ wavelength' = wvl
    /\ unaligned' = supplied
    /\ mesh' = m
    /\ initial' = init
    /\ ret' = make_coords_from(init, center, sym, layers)
    /\ UNCHANGED <<call_vars, grid_vars, loop_vars>>

make_coords_UniformGrid ==
    /\ pc = "idle"
    /\ \E dl \in 1..MaxDl, center \in Centers, size \in Sizes, sym \in Symmetries,
          layers \in LayerPairs, per \in BOOLEAN :
          /\ UniformExact(dl, size)
          /\ make_coords([type |-> "UniformGrid", dl |-> dl], center, size, sym,
                         layers, per, 0, <<>>, NoMesh,
                         UniformGrid_make_coords_initial(dl, center, size))

make_coords_CustomGridBoundaries ==
    /\ pc = "idle"
    /\ \E coords \in IncreasingArrays, center \in Centers, size \in Sizes,
          sym \in Symmetries, layers \in LayerPairs, per \in BOOLEAN :
          make_coords([type |-> "CustomGridBoundaries", coords |-> coords],
                      center, size, sym, layers, per, 0, coords, NoMesh,
                      CustomGridBoundaries_make_coords_initial(coords, center, size))

make_coords_CustomGrid ==
    /\ pc = "idle"
    /\ \E dl \in StepTuples(MaxLen), center \in Centers, size \in Sizes,
          custom_offset \in {<<>>} \cup {<<x>> : x \in CustomOffsets},
          sym \in Symmetries, layers \in LayerPairs, per \in BOOLEAN :
          /\ custom_offset = <<>> => Sum(dl) % 2 = 0
          /\ make_coords([type |-> "CustomGrid", dl |-> dl,
                          custom_offset |-> custom_offset],
                         center, size, sym, layers, per, 0,
                         CustomGrid_bound_coords(dl, custom_offset, center), NoMesh,
                         CustomGrid_make_coords_initial(dl, custom_offset, center, size))

make_coords_AutoGrid ==
    /\ pc = "idle"
    /\ \E center \in Centers, size \in AutoSizes, sym \in Symmetries,
          layers \in LayerPairs, per \in BOOLEAN, wvl \in Wavelengths,
          min_steps_per_wvl \in MinStepsPerWvl, max_scale \in MaxScales,
          error \in MesherErrors :
          LET bounds == domain_bounds(sym, center, size)
              g == [type |-> "AutoGrid", min_steps_per_wvl |-> min_steps_per_wvl,
                    max_scale |-> max_scale]
          IN \E parsed \in parse_structures(bounds[1], bounds[2], AutoInner, Ceilings) :
                \E dl_list \in
                      IF Len(parsed[1]) = 1 THEN {<<>>}
                      ELSE make_grid_multiple_intervals(
                               parsed[2], Widths(parsed[1]), max_scale,
                               is_periodic(per, sym), error) :
                   /\ Len(parsed[1]) = 1 => error = 0
                   /\ make_coords(g, center, size, sym, layers, per, wvl, <<>>,
                                  [interval_coords |-> parsed[1],
                                   max_dl_list |-> parsed[2],
                                   dl_list |-> dl_list,
                                   bound_coords |->
                                       IF Len(parsed[1]) = 1 THEN <<>>
                                       ELSE auto_bound_coords(parsed[1], dl_list)],
                                  AutoGrid_make_coords_initial(
                                      min_steps_per_wvl, wvl, sym, center, size,
                                      parsed[1], dl_list))

\* a direct call of the static method
add_pml_to_bounds ==
    /\ pc = "idle"
    /\ \E bounds \in IncreasingArrays, n0 \in Layers, n1 \in Layers :
          /\ pc' = "done"
          /\ op' = "_add_pml_to_bounds"
          /\ num_pml_layers' = <<n0, n1>>
          /\ initial' = Ok(bounds)
          /\ ret' = Ok(_add_pml_to_bounds(<<n0, n1>>, bounds))
          /\ UNCHANGED <<grid, box, symmetry, periodic, wavelength, unaligned, mesh>>
          /\ UNCHANGED <<call_vars, grid_vars, loop_vars>>

\* the caller drops the result; the next call starts afresh
Return ==
    /\ pc = "done"
    /\ pc' = "idle"
    /\ op' = "None"
    /\ grid' = NoGrid
    /\ box' = NoBox
    /\ symmetry' = 0
    /\ num_pml_layers' = <<0, 0>>
    /\ periodic' = FALSE
    /\ wavelength' = 0
    /\ unaligned' = <<>>
    /\ mesh' = NoMesh
    /\ initial' = Ok(<<>>)
    /\ ret' = Ok(<<>>)
    /\ arg' = <<>>
    /\ result' = NoResult
    /\ request' = NoRequest
    /\ grid_spec' = NoGridSpec
    /\ progress' = NoProgress
    /\ outcome' = NoOutcome
    /\ compared' = NoCompared
    /\ fit' = NoFit
    /\ padding' = NoPadding

Next ==
    \/ make_coords_UniformGrid
    \/ make_coords_CustomGridBoundaries
    \/ make_coords_CustomGrid
    \/ make_coords_AutoGrid
    \/ add_pml_to_bounds
    \/ Return

Spec == Init /\ [][Next]_vars

----------------------------------------------------------------------------
(* GridSpec.override_structures_used                                       *)
(*                                                                         *)
(* An override structure is a record: a plain Structure, or a              *)
(* MeshOverrideStructure with dl, one entry per axis, each <<>> for None   *)
(* or <<d>> for the step d.                                                *)

MaxOverride == 3   \* override structures per GridSpec

Axes == 1..3

OverrideSteps == {4}           \* a MeshOverrideStructure's dl[axis], when set

PlainStructure == [type |-> "Structure", dl |-> <<>>]

MeshOverrideStructure(dl) == [type |-> "MeshOverrideStructure", dl |-> dl]

OptionalSteps == {<<>>} \cup {<<d>> : d \in OverrideSteps}

OverrideStructures ==
    {PlainStructure}
        \cup {MeshOverrideStructure(<<x, y, z>>) :
                 x \in OptionalSteps, y \in OptionalSteps, z \in OptionalSteps}

\* the tuples of at most n override structures
RECURSIVE OverrideTuples(_)
OverrideTuples(n) ==
    IF n = 0 THEN {<<>>}
    ELSE OverrideTuples(n - 1)
         \cup {Append(t, s) : t \in {u \in OverrideTuples(n - 1) : Len(u) = n - 1},
                              s \in OverrideStructures}

\* the for loop over self.override_structures, override_used being the flags
\* set so far
RECURSIVE override_used_loop(_, _)
override_used_loop(structures, override_used) ==
    IF structures = <<>> THEN override_used
    ELSE LET structure == Head(structures)
         IN IF structure.type = "Structure" THEN <<TRUE, TRUE, TRUE>>
            ELSE override_used_loop(
                     Tail(structures),
                     [dl_axis \in Axes |->
                         IF (~override_used[dl_axis]) /\ structure.dl[dl_axis] # <<>>
                         THEN TRUE ELSE override_used[dl_axis]])

\* a faulty variant: only the first override structure is looked at
override_structures_used_first(override_structures) ==
    IF Len(override_structures) = 0 THEN <<FALSE, FALSE, FALSE>>
    ELSE override_used_loop(<<Head(override_structures)>>, <<FALSE, FALSE, FALSE>>)

override_structures_used(override_structures) ==
    IF Len(override_structures) = 0 THEN <<FALSE, FALSE, FALSE>>
    ELSE override_used_loop(override_structures, <<FALSE, FALSE, FALSE>>)

----------------------------------------------------------------------------
(* The validators of tidy3d/components/validators.py.  A validator returns *)
(* the validated value or raises.                                          *)

MaxName == 3       \* characters per name

Returns(val) == [status |-> "ok", val |-> val]
Raises(exc) == [status |-> exc, val |-> <<>>]

\* val.count(0.0)
count_zeros(val) == Cardinality({i \in 1..Len(val) : val[i] = 0})

\* assert_line
is_line(val) ==
    IF count_zeros(val) # 2 THEN Raises("ValidationError") ELSE Returns(val)

\* a faulty variant: a size with no zero entry passes as well
is_plane_at_most_one(val) ==
    IF count_zeros(val) > 1 THEN Raises("ValidationError") ELSE Returns(val)

\* assert_plane
is_plane(val) ==
    IF count_zeros(val) # 1 THEN Raises("ValidationError") ELSE Returns(val)

\* assert_volumetric
is_volumetric(val) ==
    IF count_zeros(val) > 0 THEN Raises("ValidationError") ELSE Returns(val)

\* validate_name_str: the check of the name is commented out
field_has_unique_names(val) == Returns(val)

NameChars == {"a", "[", "]"}

\* the names of at most n characters
RECURSIVE Names(_)
Names(n) ==
    IF n = 0 THEN {<<>>}
    ELSE Names(n - 1)
         \cup {Append(t, c) : t \in {u \in Names(n - 1) : Len(u) = n - 1},
                              c \in NameChars}

SizeEntries == {0, 1, 2}

SizeTriples == {<<x, y, z>> : x \in SizeEntries, y \in SizeEntries, z \in SizeEntries}

\* plane.pop_axis([0, 1, 2], axis)[1]: the two other axes, in order (0-based)
pop_axis_others(axis) == SortedSeq({0, 1, 2} \ {axis})

\* plane.size.index(0.0): the 0-based index of the first entry that is 0
index_of_zero(size) == CHOOSE i \in 0..2 : size[i + 1] = 0 /\ \A j \in 0..(i - 1) : size[j + 1] # 0

\* a faulty variant: the size is read along the bend axis, not the radial one
radial_axis_is_bend_axis(mode_spec, size) ==
    pop_axis_others(index_of_zero(size))[mode_spec.bend_axis + 1]

\* radial_ax = plane_axs[(mode_spec.bend_axis + 1) % 2], 0-based
radial_axis(mode_spec, size) ==
    pop_axis_others(index_of_zero(size))[((mode_spec.bend_axis + 1) % 2) + 1]

\* validate_mode_plane_radius; bend_radius is <<>> for None or <<r>>; the
\* return value None is <<>>.  tuple.index raises ValueError when no entry
\* of the size is 0
validate_mode_plane_radius(mode_spec, size) ==
    IF mode_spec.bend_radius = <<>> \/ mode_spec.bend_radius = <<0>> THEN Returns(<<>>)
    ELSE IF count_zeros(size) = 0 THEN Raises("ValueError")
    ELSE IF 2 * Abs(mode_spec.bend_radius[1]) < size[radial_axis(mode_spec, size) + 1]
    THEN Raises("ValueError")
    ELSE Returns(<<>>)

\* ModeSpec.bend_radius and ModeSpec.bend_axis
BendRadii == {<<>>, <<0>>, <<1>>, <<-1>>, <<2>>, <<-3>>}
ModeSpecs == [bend_radius : BendRadii, bend_axis : {0, 1}]

\* the sizes of the box the modes are computed on
PlaneSizeEntries == {0, 2, 4}
PlaneSizes == {<<x, y, z>> : x \in PlaneSizeEntries, y \in PlaneSizeEntries, z \in PlaneSizeEntries}

----------------------------------------------------------------------------
(* GridSpec: the wavelength and the override-structure warnings            *)
(*                                                                         *)
(* A GridSpec is a record: grids, the three GridSpec1d objects             *)
(* [grid_x, grid_y, grid_z], each axis holding an object of its own;       *)
(* wavelength, <<>> for None or <<w>>; override_structures.  A source is   *)
(* its source_time.freq0.                                                  *)

\* the speed of light, in model length units times model frequency units
C_0 == 1600

\* any(isinstance(mesh, AutoGrid) for mesh in grid_list)
auto_grid_used(gs) == \E a \in Axes : gs.grids[a].type = "AutoGrid"

\* a faulty variant: the frequencies of the sources are not compared
wavelength_from_first_source(sources) ==
    IF Len(sources) = 0 THEN Raises("SetupError")
    ELSE Returns(C_0 \div sources[1])

wavelength_from_sources(sources) ==
    IF Len(sources) = 0 THEN Raises("SetupError")
    ELSE IF ~(\A i \in 1..Len(sources) : isclose(sources[i], sources[1]))
    THEN Raises("SetupError")
    ELSE Returns(C_0 \div sources[1])

\* whether make_grid calls wavelength_from_sources
needs_sources(gs) == gs.wavelength = <<>> /\ auto_grid_used(gs)

\* the wavelength make_grid settles on (<<>> for None), or what it raises
make_grid_wavelength(gs, sources) ==
    IF needs_sources(gs)
    THEN LET from_sources == wavelength_from_sources(sources)
         IN IF from_sources.status = "ok" THEN Returns(<<from_sources.val>>)
            ELSE from_sources
    ELSE Returns(gs.wavelength)

\* a faulty variant: the warning is logged along AutoGrid axes as well
override_warnings_all_axes(gs) ==
    {a \in Axes : override_structures_used(gs.override_structures)[a]}

\* the axes along which make_grid logs "Override structures take no effect"
override_warnings(gs) ==
    {a \in Axes : /\ override_structures_used(gs.override_structures)[a]
                  /\ gs.grids[a].type # "AutoGrid"}

\* a faulty variant: the warnings are logged before the wavelength is set up
make_grid_warn_first(at) ==
    CASE at = "call" -> "warn"
      [] at = "warn" -> "wavelength"
      [] at = "wavelength" -> "coords"
      [] at = "coords" -> "done"

\* the order of make_grid's statements: the one that follows the one at
make_grid_order(at) ==
    CASE at = "call" -> "wavelength"
      [] at = "wavelength" -> "warn"
      [] at = "warn" -> "coords"
      [] at = "coords" -> "done"

----------------------------------------------------------------------------
(* Structures and the mesher's intervals along one axis                    *)
(*                                                                         *)
(* A structure is a record: type, dl (as for the override structures),     *)
(* geometry, a box [center, size] of triples, and n, the refractive index  *)
(* of its medium.                                                          *)

Box(center, size) == [center |-> center, size |-> size]

\* the element of a set of one element; Only({e(x) : x \in {v}}) is e(v)
Only(S) == CHOOSE x \in S : TRUE

Structure(geometry, n) ==
    [type |-> "Structure", dl |-> <<>>, geometry |-> geometry, n |-> n]

MeshOverride(geometry, dl) ==
    [type |-> "MeshOverrideStructure", dl |-> dl, geometry |-> geometry, n |-> 1]

\* geometry.bounds along axis: <<min, max>>
bounds_along(geometry, axis) ==
    <<geometry.center[axis] - geometry.size[axis] \div 2,
      geometry.center[axis] + geometry.size[axis] \div 2>>

\* Box.intersects
intersects(a, b) ==
    \A axis \in Axes :
        /\ bounds_along(a, axis)[1] <= bounds_along(b, axis)[2]
        /\ bounds_along(b, axis)[1] <= bounds_along(a, axis)[2]

\* the syms-reduced domain: every axis with a symmetry is halved
symmetry_domain_box(syms, geometry) ==
    Box([dim \in Axes |->
            symmetry_domain(syms[dim], geometry.center[dim], geometry.size[dim])[1]],
        [dim \in Axes |->
            symmetry_domain(syms[dim], geometry.center[dim], geometry.size[dim])[2]])

\* struct_list: the reduced domain, then the structures that intersect it
symmetry_struct_list(syms, structures) ==
    LET domain == symmetry_domain_box(syms, structures[1].geometry)
        inside(structure) == intersects(domain, structure.geometry)
    IN <<Structure(domain, structures[1].n)>> \o SelectSeq(Tail(structures), inside)

\* the step a structure asks for along axis, <<>> if it asks for none
structure_step(structure, axis, wvl, min_steps_per_wvl, dl_min) ==
    IF structure.type = "Structure"
    THEN LET dl == (wvl \div min_steps_per_wvl) \div structure.n
         IN <<IF dl < dl_min THEN dl_min ELSE dl>>
    ELSE structure.dl[axis]

\* GradedMesher.parse_structures followed by insert_snapping_points with no
\* snapping points: the edges of the structures inside the domain, sorted,
\* split it into intervals; the last structure that covers an interval and
\* asks for a step gives the interval's ceiling
mesher_parse_structures(axis, struct_list, wvl, min_steps_per_wvl, dl_min) ==
    LET step(i) == structure_step(struct_list[i], axis, wvl,
                                  min_steps_per_wvl, dl_min)
        lo == bounds_along(struct_list[1].geometry, axis)[1]
        hi == bounds_along(struct_list[1].geometry, axis)[2]
        asking == {i \in 1..Len(struct_list) : step(i) # <<>>}
        edges == {lo, hi} \cup
                 {e \in UNION {{bounds_along(struct_list[i].geometry, axis)[1],
                                bounds_along(struct_list[i].geometry, axis)[2]} :
                               i \in asking} : lo < e /\ e < hi}
        interval_coords == SortedSeq(edges)
        covering(k) ==
            {i \in asking :
                /\ bounds_along(struct_list[i].geometry, axis)[1] <= interval_coords[k]
                /\ interval_coords[k + 1] <= bounds_along(struct_list[i].geometry, axis)[2]}
        topmost(k) == CHOOSE i \in covering(k) : \A j \in covering(k) : j <= i
    IN IF lo = hi THEN <<(<<lo>>), <<>>>>
       ELSE <<interval_coords,
              [k \in 1..(Len(interval_coords) - 1) |-> step(topmost(k))[1]]>>

\* GradedMesher.make_grid_multiple_intervals as a function: of the step
\* lists it may return, one with the fewest cells
graded_steps(max_dl_list, len_list, max_scale, periodic_bc) ==
    Only({CHOOSE dl_list \in allowed :
              \A other \in allowed : Len(Concat(dl_list)) <= Len(Concat(other)) :
          allowed \in {make_grid_multiple_intervals(max_dl_list, len_list, max_scale,
                                                    periodic_bc, 0)}})

----------------------------------------------------------------------------
(* GridSpec1d.make_coords as GridSpec.make_grid calls it: along axis, on   *)
(* the list of all structures                                              *)

\* Python's a[start:stop] as 1-based indices of a
PySliceIndices(a, start, stop) ==
    LET n == Len(a)
        norm(k) == IF k < 0 THEN (IF k + n < 0 THEN 0 ELSE k + n)
                   ELSE (IF k > n THEN n ELSE k)
    IN (norm(start) + 1)..norm(stop)

\* self.coords of a CustomGridBoundaries after make_coords.  For size == 0
\* _postprocess_unaligned_grid returns bound_coords[ind - 1 : ind + 1], a
\* view of self.coords, and "bound_coords += center - bound_coords[center_ind]"
\* in the symmetry branch of make_coords then writes through that view
coords_after_make_coords(coords, center, size, sym) ==
    LET init == CustomGridBoundaries_make_coords_initial(coords, center, size)
        ind0 == searchsorted_right(coords, center)
        ind == IF ind0 >= Len(coords) THEN Len(coords) - 1 ELSE ind0
        view == PySliceIndices(coords, ind - 1, ind + 1)
    IN IF size = 0 /\ sym # 0 /\ init.status = "ok" /\ init.coords # <<>>
       THEN LET center_ind == argmin_abs(center, init.coords)
                offset == center - init.coords[center_ind]
            IN [i \in 1..Len(coords) |->
                   IF i \in view THEN coords[i] + offset ELSE coords[i]]
       ELSE coords

\* AutoGrid._make_coords_initial, the mesher included
AutoGrid_initial(g, axis, structures, wvl, syms, is_per) ==
    LET geometry == structures[1].geometry
        parsed == mesher_parse_structures(
                      axis, symmetry_struct_list(syms, structures),
                      wvl, g.min_steps_per_wvl, g.dl_min)
        dl_list == IF Len(parsed[1]) = 1 THEN <<>>
                   ELSE graded_steps(parsed[2], Widths(parsed[1]), g.max_scale, is_per)
    IN AutoGrid_make_coords_initial(
           g.min_steps_per_wvl, wvl, syms[axis],
           geometry.center[axis], geometry.size[axis], parsed[1], dl_list)

\* self._make_coords_initial, by the type of self
make_coords_initial(g, axis, structures, wvl, syms, is_per) ==
    LET center == structures[1].geometry.center[axis]
        size == structures[1].geometry.size[axis]
    IN CASE g.type = "UniformGrid" ->
                UniformGrid_make_coords_initial(g.dl, center, size)
         [] g.type = "CustomGridBoundaries" ->
                CustomGridBoundaries_make_coords_initial(g.coords, center, size)
         [] g.type = "CustomGrid" ->
                CustomGrid_make_coords_initial(g.dl, g.custom_offset, center, size)
         [] g.type = "AutoGrid" ->
                AutoGrid_initial(g, axis, structures, wvl[1], syms, is_per)

\* make_coords on the GridSpec1d g: what it returns (or raises), and g's
\* stored fields after the call
GridSpec1d_make_coords(g, axis, structures, syms, per, wvl, layers) ==
    LET center == structures[1].geometry.center[axis]
        size == structures[1].geometry.size[axis]
    IN Only({[ret |-> make_coords_from(init, center, syms[axis], layers),
              self |-> IF g.type = "CustomGridBoundaries"
                       THEN [type |-> g.type,
                             coords |-> coords_after_make_coords(
                                            g.coords, center, size, syms[axis])]
                       ELSE g] :
             init \in {make_coords_initial(g, axis, structures, wvl, syms,
                                           is_periodic(per, syms[axis]))}})

----------------------------------------------------------------------------
(* GridSpec.make_grid *)

\* make_grid returns Grid(boundaries=coords)
Grid(coords_dict) == [status |-> "ok", raised_by |-> "None", boundaries |-> coords_dict]

\* make_grid raises exc, which came out of the call of f
Fails(exc, f) == [status |-> exc, raised_by |-> f, boundaries |-> <<>>]

\* all_structures = list(structures) + [s.to_static() for s in override_structures]
all_structures(gs, req) == req.structures \o gs.override_structures

\* grid_1d.make_coords(...) for axis idim of the loop over "xyz"
make_coords_along(gs, req, idim, wvl) ==
    GridSpec1d_make_coords(gs.grids[idim], idim, all_structures(gs, req), req.symmetry,
                           req.periodic[idim], wvl, req.num_pml_layers[idim])

\* gs after make_coords has returned r for its axis idim
grid_spec_after(gs, idim, r) ==
    [grids |-> [a \in Axes |-> IF a = idim THEN r.self ELSE gs.grids[a]],
     wavelength |-> gs.wavelength,
     override_structures |-> gs.override_structures,
     snapping_points |-> gs.snapping_points]

\* the loop over the axes from idim on: what make_grid returns (or raises)
\* and the GridSpec's stored fields after it
RECURSIVE make_grid_loop(_, _, _, _, _)
make_grid_loop(gs, req, idim, wvl, coords_dict) ==
    IF idim > 3 THEN [outcome |-> Grid(coords_dict), grid_spec |-> gs]
    ELSE Only({IF r.ret.status # "ok"
               THEN [outcome |-> Fails(r.ret.status, "make_coords"),
                     grid_spec |-> grid_spec_after(gs, idim, r)]
               ELSE Only({make_grid_loop(gs2, req, idim + 1, wvl, coords_dict2) :
                          gs2 \in {grid_spec_after(gs, idim, r)},
                          coords_dict2 \in {Append(coords_dict, r.ret.coords)}}) :
               r \in {make_coords_along(gs, req, idim, wvl)}})

\* a whole call of make_grid on gs with the arguments of req
make_grid(gs, req) ==
    Only({IF w.status # "ok"
          THEN [outcome |-> Fails(w.status, "wavelength_from_sources"),
                grid_spec |-> gs]
          ELSE make_grid_loop(gs, req, 1, w.val, <<>>) :
          w \in {make_grid_wavelength(gs, req.sources)}})

----------------------------------------------------------------------------
(* The calls of make_grid that are made *)

AxisStrategies ==
    {[type |-> "UniformGrid", dl |-> 4],
     [type |-> "CustomGridBoundaries", coords |-> <<-2, 1, 4>>],
     [type |-> "CustomGrid", dl |-> <<2, 2>>, custom_offset |-> <<>>],
     [type |-> "AutoGrid", min_steps_per_wvl |-> 10, max_scale |-> <<7, 5>>,
      dl_min |-> 4]}

\* the strategies along y: also cell sizes laid out beside the domain, and
\* cell sizes laid out from just below the domain's lower edge
MiddleAxisStrategies ==
    AxisStrategies
        \cup {[type |-> "CustomGrid", dl |-> <<2, 2>>, custom_offset |-> <<20>>],
              [type |-> "CustomGrid", dl |-> <<6, 6, 6>>, custom_offset |-> <<-10>>]}

\* the strategies along z
LastAxisStrategies == {g \in AxisStrategies : g.type \in {"UniformGrid", "AutoGrid"}}

SourceLists == {<<>>, <<20, 22>>, <<20, 23>>, <<22, 20, 24>>}

\* <<GridSpec.wavelength, sources>>: no wavelength with every source list, a
\* wavelength with no source and with sources that differ
WavelengthAndSources ==
    {<<(<<>>), sources>> : sources \in SourceLists}
        \cup {<<(<<80>>), <<>>>>, <<(<<80>>), <<20, 23>>>>}

\* structures[0].geometry: the simulation domain, flat along x in the second
DomainBoxes == {Box(<<0, 0, 0>>, <<16, 16, 16>>), Box(<<0, 0, 0>>, <<0, 16, 16>>)}

SymmetryTriples == {<<0, 0, 0>>, <<-1, 1, 0>>}

PeriodicFlags == <<TRUE, FALSE, TRUE>>

PmlLayers == <<(<<1, 1>>), <<0, 0>>, <<2, 1>>>>

\* a block in the upper half along x and the lower quarter along y
BlockBox == Box(<<4, -6, 0>>, <<8, 4, 16>>)

\* <<structures[1:], override_structures>>
Scenes ==
    {<<(<<>>), <<>>>>,
     <<(<<Structure(BlockBox, 2)>>), <<>>>>,
     <<(<<>>), <<Structure(BlockBox, 2)>>>>,
     <<(<<>>), <<MeshOverride(BlockBox, <<(<<>>), <<4>>, <<>>>>)>>>>}

make_grid_call ==
    /\ pc = "idle"
    /\ \E gx \in AxisStrategies, gy \in MiddleAxisStrategies, gz \in LastAxisStrategies,
          ws \in WavelengthAndSources, scene \in Scenes,
          domain \in DomainBoxes, syms \in SymmetryTriples :
          LET gs == [grids |-> <<gx, gy, gz>>, wavelength |-> ws[1],
                     override_structures |-> scene[2], snapping_points |-> <<>>]
          IN /\ request' = [grid_spec |-> gs,
                            structures |-> <<Structure(domain, 1)>> \o scene[1],
                            symmetry |-> syms, periodic |-> PeriodicFlags,
                            sources |-> ws[2], num_pml_layers |-> PmlLayers]
             /\ grid_spec' = gs
    /\ pc' = make_grid_order("call")
    /\ op' = "make_grid"
    /\ progress' = NoProgress
    /\ outcome' = NoOutcome
    /\ compared' = NoCompared
    /\ UNCHANGED <<coords_vars, call_vars, loop_vars>>

\* lines 699-703
set_up_wavelength ==
    /\ pc = "wavelength"
    /\ \E w \in {make_grid_wavelength(grid_spec, request.sources)} :
          /\ progress' = [wavelength |-> w.val,
                          inspected |-> needs_sources(grid_spec),
                          warnings |-> progress.warnings,
                          coords_dict |-> progress.coords_dict,
                          is_periodic |-> progress.is_periodic]
          /\ IF w.status = "ok"
             THEN pc' = make_grid_order("wavelength") /\ outcome' = outcome
             ELSE pc' = "done" /\ outcome' = Fails(w.status, "wavelength_from_sources")
    /\ UNCHANGED <<op, request, grid_spec, compared, coords_vars, call_vars, loop_vars>>

\* lines 705-717
warn_override_structures ==
    /\ pc = "warn"
    /\ progress' = [wavelength |-> progress.wavelength,
                    inspected |-> progress.inspected,
                    warnings |-> override_warnings(grid_spec),
                    coords_dict |-> progress.coords_dict,
                          is_periodic |-> progress.is_periodic]
    /\ pc' = make_grid_order("warn")
    /\ UNCHANGED <<op, request, grid_spec, outcome, compared, coords_vars, call_vars, loop_vars>>

\* lines 733-746: one pass of the loop, and the return after the last
make_coords_axis ==
    /\ pc = "coords"
    /\ \E idim \in {Len(progress.coords_dict) + 1} :
       \E r \in {make_coords_along(grid_spec, request, idim, progress.wavelength)} :
       \E coords_dict \in {Append(progress.coords_dict, r.ret.coords)} :
          /\ grid_spec' = grid_spec_after(grid_spec, idim, r)
          /\ IF r.ret.status # "ok"
             THEN /\ pc' = "done"
                  /\ outcome' = Fails(r.ret.status, "make_coords")
                  /\ progress' = progress
             ELSE /\ progress' = [wavelength |-> progress.wavelength,
                                  inspected |-> progress.inspected,
                                  warnings |-> progress.warnings,
                                  coords_dict |-> coords_dict,
                                  is_periodic |->
                                      Append(progress.is_periodic,
                                             is_periodic(request.periodic[idim],
                                                         request.symmetry[idim]))]
                  /\ IF idim = 3
                     THEN pc' = make_grid_order("coords") /\ outcome' = Grid(coords_dict)
                     ELSE pc' = "coords" /\ outcome' = outcome
    /\ UNCHANGED <<op, request, compared, coords_vars, call_vars, loop_vars>>

\* make_grid has completed and has not been compared with another call
MadeGrid == pc = "done" /\ op = "make_grid" /\ compared = NoCompared

\* another call has completed: what was called, and what came of it
another_call(kind, axis, req, run) ==
    /\ compared' = [kind |-> kind, axis |-> axis, request |-> req,
                    outcome |-> run.outcome]
    /\ UNCHANGED <<pc, op, request, progress, outcome, coords_vars, call_vars, loop_vars>>

\* a second call on the same object with the same arguments
make_grid_again ==
    /\ MadeGrid
    /\ \E run \in {make_grid(grid_spec, request)} :
          /\ another_call("again", 0, request, run)
          /\ grid_spec' = run.grid_spec

\* req with the per-axis inputs of axis b replaced
with_axis(req, b, g, sym, per, layers) ==
    [grid_spec |->
        [grids |-> [a \in Axes |-> IF a = b THEN g ELSE req.grid_spec.grids[a]],
         wavelength |-> req.grid_spec.wavelength,
         override_structures |-> req.grid_spec.override_structures,
         snapping_points |-> req.grid_spec.snapping_points],
     structures |-> req.structures,
     symmetry |-> [a \in Axes |-> IF a = b THEN sym ELSE req.symmetry[a]],
     periodic |-> [a \in Axes |-> IF a = b THEN per ELSE req.periodic[a]],
     sources |-> req.sources,
     num_pml_layers |-> [a \in Axes |-> IF a = b THEN layers ELSE req.num_pml_layers[a]]]

\* the requests that differ from req in one per-axis input of axis b
varied_along(req, b) ==
    LET g == req.grid_spec.grids[b]
        sym == req.symmetry[b]
        per == req.periodic[b]
        layers == req.num_pml_layers[b]
    IN {with_axis(req, b, g2, sym, per, layers) : g2 \in AxisStrategies \ {g}}
       \cup {with_axis(req, b, g, sym2, per, layers) : sym2 \in Symmetries \ {sym}}
       \cup {with_axis(req, b, g, sym, ~per, layers)}
       \cup {with_axis(req, b, g, sym, per, <<layers[2] + 1, layers[1]>>)}

\* the same call on an equal GridSpec, but for one per-axis input of one axis
make_grid_varied ==
    /\ MadeGrid
    /\ \E b \in Axes : \E req \in varied_along(request, b) :
          \E run \in {make_grid(req.grid_spec, req)} :
             another_call("varied", b, req, run)
    /\ UNCHANGED grid_spec

\* req with no override structures
without_override_structures(req) ==
    [grid_spec |->
        [grids |-> req.grid_spec.grids,
         wavelength |-> req.grid_spec.wavelength,
         override_structures |-> <<>>,
         snapping_points |-> req.grid_spec.snapping_points],
     structures |-> req.structures,
     symmetry |-> req.symmetry,
     periodic |-> req.periodic,
     sources |-> req.sources,
     num_pml_layers |-> req.num_pml_layers]

\* the same call on an equal GridSpec, but with no override structures
make_grid_without_overrides ==
    /\ MadeGrid
    /\ \E req \in {without_override_structures(request)} :
          \E run \in {make_grid(req.grid_spec, req)} :
             another_call("no_overrides", 0, req, run)
    /\ UNCHANGED grid_spec

\* GridSpec.from_grid(grid): each axis takes the grid's boundaries as
\* CustomGridBoundaries; the other fields of the GridSpec keep their defaults
from_grid(g) ==
    [grids |-> [a \in Axes |->
                   [type |-> "CustomGridBoundaries", coords |-> g.boundaries[a]]],
     wavelength |-> <<>>,
     override_structures |-> <<>>,
     snapping_points |-> <<>>]

\* req with the GridSpec replaced
with_grid_spec(req, gs) ==
    [grid_spec |-> gs,
     structures |-> req.structures,
     symmetry |-> req.symmetry,
     periodic |-> req.periodic,
     sources |-> req.sources,
     num_pml_layers |-> req.num_pml_layers]

\* GridSpec.from_grid(grid).make_grid with the arguments of the call that
\* returned grid
make_grid_from_grid ==
    /\ MadeGrid
    /\ outcome.status = "ok"
    /\ \E req \in {with_grid_spec(request, from_grid(outcome))} :
          \E run \in {make_grid(req.grid_spec, req)} :
             another_call("from_grid", 0, req, run)
    /\ UNCHANGED grid_spec

NextGrid ==
    \/ make_grid_call
    \/ set_up_wavelength
    \/ warn_override_structures
    \/ make_coords_axis
    \/ make_grid_again
    \/ make_grid_varied
    \/ make_grid_without_overrides
    \/ make_grid_from_grid
    \/ Return

SpecGrid == Init /\ [][NextGrid]_vars

----------------------------------------------------------------------------
(* Calls of the property and of the validators *)

\* a call of f on a has completed with r
called(f, a, r) ==
    /\ pc' = "done"
    /\ op' = f
    /\ arg' = a
    /\ result' = r
    /\ UNCHANGED <<coords_vars, grid_vars, loop_vars>>

call_override_structures_used ==
    /\ pc = "idle"
    /\ \E override_structures \in OverrideTuples(MaxOverride) :
          called("override_structures_used", override_structures,
                 Returns(override_structures_used(override_structures)))

call_validate_name_str ==
    /\ pc = "idle"
    /\ \E val \in Names(MaxName) :
          called("validate_name_str", val, field_has_unique_names(val))

call_assert_line ==
    /\ pc = "idle"
    /\ \E val \in SizeTriples : called("assert_line", val, is_line(val))

call_assert_plane ==
    /\ pc = "idle"
    /\ \E val \in SizeTriples : called("assert_plane", val, is_plane(val))

call_assert_volumetric ==
    /\ pc = "idle"
    /\ \E val \in SizeTriples : called("assert_volumetric", val, is_volumetric(val))

call_validate_mode_plane_radius ==
    /\ pc = "idle"
    /\ \E mode_spec \in ModeSpecs, size \in PlaneSizes :
          called("validate_mode_plane_radius", [mode_spec |-> mode_spec, size |-> size],
                 validate_mode_plane_radius(mode_spec, size))

NextPure ==
    \/ call_override_structures_used
    \/ call_validate_name_str
    \/ call_assert_line
    \/ call_assert_plane
    \/ call_assert_volumetric
    \/ call_validate_mode_plane_radius
    \/ Return

SpecPure == Init /\ [][NextPure]_vars

----------------------------------------------------------------------------
(* DispersionFitter.fit (tidy3d/plugins/dispersion/fit.py)                 *)
(*                                                                         *)
(* An RMS error is a whole number of model units in 0..MaxRms, and np.inf  *)
(* is a value above them all.  A medium is the number of the _fit_single   *)
(* call that returned it; None is <<>>.  A guess is <<>> for None or <<n>> *)
(* for a PoleResidue with n poles.  The Progress of the rich library holds *)
(* one task; it marks the task finished when an update leaves              *)
(* completed >= total, and not when the task is added.                     *)

MaxTries == 3      \* num_tries in 0..MaxTries
MaxRms == 3        \* the RMS error of a single fit: 0..MaxRms

\* best_rms = np.inf
inf == MaxRms + 1

\* the argument num_poles
NumPoles == 1

\* the argument guess: none, one with num_poles poles, one with more
Guesses == {<<>>, <<NumPoles>>, <<NumPoles + 1>>}

\* the argument tolerance_rms: no RMS error is below 0
Tolerances == {0, 2}

\* a faulty variant: a later attempt with the same RMS error replaces the best
improves_or_ties(rms_error, best_rms) == rms_error <= best_rms

\* if rms_error < best_rms
improves(rms_error, best_rms) == rms_error < best_rms

\* a faulty variant: the guess is passed to every attempt
guess_passed_always(guess, completed) == guess

\* the guess _fit_single is called with: guess is not None and
\* progress.tasks[0].completed == 0
guess_passed(guess, completed) ==
    IF guess # <<>> /\ completed = 0 THEN guess ELSE <<>>

\* _fit_single raises ValueError on a guess whose number of poles is not
\* num_poles
_fit_single_raises(num_poles, guess) == guess # <<>> /\ guess[1] # num_poles

\* progress.add_task(..., total=num_tries)
add_task(total) == [total |-> total, completed |-> 0, finished |-> FALSE]

\* progress.update(task, advance=1) and progress.update(task, completed=n)
update_task(task, completed) ==
    [total |-> task.total, completed |-> completed,
     finished |-> task.finished \/ completed >= task.total]

\* a call of fit
fit_call ==
    /\ pc = "idle"
    /\ \E num_tries \in 0..MaxTries, tolerance_rms \in Tolerances, guess \in Guesses :
          fit' = [num_poles |-> NumPoles, num_tries |-> num_tries,
                  tolerance_rms |-> tolerance_rms, guess |-> guess,
                  best_medium |-> <<>>, best_rms |-> inf,
                  task |-> add_task(num_tries),
                  calls |-> 0, attempts |-> <<>>,
                  warned |-> FALSE, raised |-> "None", ret |-> <<>>]
    /\ pc' = "loop"
    /\ op' = "fit"
    /\ UNCHANGED <<padding, coords_vars, call_vars, grid_vars>>

\* a pass of the loop in which _fit_single raises
fit_single_raises ==
    /\ pc = "loop"
    /\ op = "fit"
    /\ ~fit.task.finished
    /\ _fit_single_raises(fit.num_poles, guess_passed(fit.guess, fit.task.completed))
    /\ fit' = [fit EXCEPT !.calls = @ + 1, !.raised = "ValueError"]
    /\ pc' = "done"
    /\ UNCHANGED <<op, padding, coords_vars, call_vars, grid_vars>>

\* a pass of the loop in which _fit_single returns (medium, rms_error): the
\* best is updated, the task advanced, and fit returns if the best is below
\* the tolerance
fit_attempt ==
    /\ pc = "loop"
    /\ op = "fit"
    /\ ~fit.task.finished
    /\ \E rms_error \in 0..MaxRms, g \in {guess_passed(fit.guess, fit.task.completed)} :
          /\ ~_fit_single_raises(fit.num_poles, g)
          /\ LET medium == fit.calls + 1
                 better == improves(rms_error, fit.best_rms)
                 best_rms == IF better THEN rms_error ELSE fit.best_rms
                 best_medium == IF better THEN <<medium>> ELSE fit.best_medium
                 task == update_task(fit.task, fit.task.completed + 1)
                 returns == best_rms < fit.tolerance_rms
             IN /\ fit' = [fit EXCEPT
                              !.calls = medium,
                              !.attempts = Append(@, [guess |-> g, medium |-> medium,
                                                      rms_error |-> rms_error,
                                                      best_rms |-> best_rms]),
                              !.best_rms = best_rms,
                              !.best_medium = best_medium,
                              !.task = IF returns THEN update_task(task, fit.num_tries)
                                       ELSE task,
                              !.ret = IF returns THEN <<best_medium, best_rms>> ELSE <<>>]
                /\ pc' = IF returns THEN "done" ELSE "loop"
    /\ UNCHANGED <<op, padding, coords_vars, call_vars, grid_vars>>

\* the loop is left: the tolerance was not reached, fit warns and returns
fit_exhausted ==
    /\ pc = "loop"
    /\ op = "fit"
    /\ fit.task.finished
    /\ fit' = [fit EXCEPT !.warned = TRUE, !.ret = <<fit.best_medium, fit.best_rms>>]
    /\ pc' = "done"
    /\ UNCHANGED <<op, padding, coords_vars, call_vars, grid_vars>>

NextFit ==
    \/ fit_call
    \/ fit_single_raises
    \/ fit_attempt
    \/ fit_exhausted
    \/ Return

SpecFit == Init /\ [][NextFit]_vars

----------------------------------------------------------------------------
(* The padding loops of _postprocess_unaligned_grid, pass by pass.  Here the
   boundaries are floating-point numbers: a sum or a difference is rounded to
   the nearest number whose significand has Significand bits, ties to the
   even significand, as numpy's float64 arithmetic does with 53 bits. *)

Significand == 3
MaxCoord == 10     \* supplied boundaries lie in -MaxCoord..MaxCoord
MaxPadded == 14    \* the model follows a loop up to MaxPadded boundaries

RECURSIVE Pow2(_)
Pow2(e) == IF e = 0 THEN 1 ELSE 2 * Pow2(e - 1)

\* the least exponent e with mag < 2^(Significand + e)
RECURSIVE exponent_of(_, _)
exponent_of(mag, e) ==
    IF mag < Pow2(Significand + e) THEN e ELSE exponent_of(mag, e + 1)

\* the float64 nearest to x, ties to even
fl(x) ==
    LET mag == Abs(x)
        unit == Pow2(exponent_of(mag, 0))
        q == mag \div unit
        r == mag % unit
        up == (2 * r > unit) \/ (2 * r = unit /\ q % 2 = 1)
        rounded == (IF up THEN q + 1 ELSE q) * unit
    IN IF x < 0 THEN -rounded ELSE rounded

\* the float64 numbers of the model
Float64 == {x \in (-MaxCoord)..MaxCoord : fl(x) = x}

\* CustomGridBoundaries.coords: no validator orders the array; the model
\* supplies the arrays that do not decrease
SuppliedCoords ==
    {s \in UNION {[1..n -> Float64] : n \in 2..MaxLen} :
        \A i \in 1..(Len(s) - 1) : s[i] <= s[i + 1]}

\* the simulation domain along the axis
PadBoxes == {[center |-> c, size |-> 8] : c \in {-4, 0, 4}}

\* the condition of the first loop, and the boundary its pass inserts
front_next(p) == fl(p.bound_coords[1] - p.dl_min)
front_cond(p) == front_next(p) >= p.bound_min

\* the condition of the second loop, and the boundary its pass appends
back_next(p) == fl(Last(p.bound_coords) + p.dl_max)
back_cond(p) == back_next(p) <= p.bound_max

\* lines 166-194: the call, up to the first loop
postprocess_call ==
    /\ pc = "idle"
    /\ \E coords \in SuppliedCoords, b \in PadBoxes :
          LET bound_min == nextafter_down(b.center - b.size \div 2)
              bound_max == nextafter_up(b.center + b.size \div 2)
              below_max(x) == x <= bound_max
              above_min(x) == x >= bound_min
              bound_coords == SelectSeq(SelectSeq(coords, below_max), above_min)
              raised == IF bound_max < coords[1] \/ bound_min > Last(coords)
                        THEN "SetupError"
                        ELSE IF Len(bound_coords) < 2 THEN "IndexError"
                        ELSE "None"
          IN /\ padding' =
                   [coords |-> coords, center |-> b.center, size |-> b.size,
                    bound_min |-> bound_min, bound_max |-> bound_max,
                    bound_coords |-> bound_coords,
                    dl_min |-> IF raised = "None"
                               THEN fl(bound_coords[2] - bound_coords[1])
                               ELSE 0,
                    dl_max |-> IF raised = "None"
                               THEN fl(Last(bound_coords)
                                       - bound_coords[Len(bound_coords) - 1])
                               ELSE 0,
                    raised |-> raised]
             /\ pc' = IF raised = "None" THEN "front" ELSE "done"
    /\ op' = "_postprocess_unaligned_grid"
    /\ UNCHANGED <<fit, coords_vars, call_vars, grid_vars>>

\* lines 195-196: one pass of the first loop
pad_front_pass ==
    /\ pc = "front"
    /\ front_cond(padding)
    /\ Len(padding.bound_coords) < MaxPadded
    /\ padding' = [padding EXCEPT
                      !.bound_coords = <<front_next(padding)>> \o padding.bound_coords]
    /\ UNCHANGED <<pc, op, fit, coords_vars, call_vars, grid_vars>>

\* line 195: the condition of the first loop is false
pad_front_exit ==
    /\ pc = "front"
    /\ ~front_cond(padding)
    /\ pc' = "back"
    /\ UNCHANGED <<op, loop_vars, coords_vars, call_vars, grid_vars>>

\* lines 197-198: one pass of the second loop
pad_back_pass ==
    /\ pc = "back"
    /\ back_cond(padding)
    /\ Len(padding.bound_coords) < MaxPadded
    /\ padding' = [padding EXCEPT
                      !.bound_coords = Append(padding.bound_coords, back_next(padding))]
    /\ UNCHANGED <<pc, op, fit, coords_vars, call_vars, grid_vars>>

\* line 197: the condition of the second loop is false
pad_back_exit ==
    /\ pc = "back"
    /\ ~back_cond(padding)
    /\ pc' = "done"
    /\ UNCHANGED <<op, loop_vars, coords_vars, call_vars, grid_vars>>

NextPad ==
    \/ postprocess_call
    \/ pad_front_pass
    \/ pad_front_exit
    \/ pad_back_pass
    \/ pad_back_exit
    \/ Return

\* a loop whose condition holds makes its next pass
SpecPad ==
    /\ Init
    /\ [][NextPad]_vars
    /\ WF_vars(pad_front_pass)
    /\ WF_vars(pad_front_exit)
    /\ WF_vars(pad_back_pass)
    /\ WF_vars(pad_back_exit)

----------------------------------------------------------------------------
(* Claims *)

\* a call of make_coords has completed
MadeCoords == pc = "done" /\ op = "make_coords"

\* ... and returned an array
ReturnedCoords == MadeCoords /\ ret.status = "ok"

IsCustom == grid.type \in {"CustomGridBoundaries", "CustomGrid"}

\* the domain's lower and upper edge along the axis
DomainMin == box.center - box.size \div 2
DomainMax == box.center + box.size \div 2

\* a custom grid supplies at least two boundaries
TwoSupplied == IsCustom => Len(unaligned) >= 2

\* C1: for every strategy, symmetry value, domain size and layer pair, the
\* array make_coords returns is strictly increasing and has at least 2
\* entries.
C1_IncreasingAtLeastTwo ==
    (ReturnedCoords /\ TwoSupplied) =>
        (StrictlyIncreasing(ret.coords) /\ Len(ret.coords) >= 2)

\* the first and last boundary, the absorber cells apart, are the domain's
\* edges within tolerance
EndsAtDomainEdges ==
    LET n0 == num_pml_layers[1]
        n1 == num_pml_layers[2]
        n == Len(ret.coords)
    IN /\ n >= n0 + n1 + 2
       /\ isclose(ret.coords[n0 + 1], DomainMin)
       /\ isclose(ret.coords[n - n1], DomainMax)
       /\ \A i \in 1..n0 : ret.coords[i + 1] - ret.coords[i]
                               = ret.coords[n0 + 2] - ret.coords[n0 + 1]
       /\ \A i \in (n - n1)..(n - 1) : ret.coords[i + 1] - ret.coords[i]
                               = ret.coords[n - n1] - ret.coords[n - n1 - 1]

\* C2 as stated: for every strategy and symmetry value, the first and last
\* boundary make_coords returns are the domain's edges (extended outward by
\* the absorber cells when layers are requested).
C2_EndsAtDomainEdgesAlways == ReturnedCoords => EndsAtDomainEdges

\* the number of cells UniformGrid makes
UniformCells == Len(initial.coords) - 1

\* C2 amended: on a domain of positive size, for AutoGrid with any symmetry
\* and for UniformGrid with symmetry 0 or an even number of cells, the first
\* and last boundary make_coords returns are the domain's edges within
\* tolerance, extended outward by n0 cells of the first cell's width and n1
\* cells of the last cell's width.
C2_EndsAtDomainEdges ==
    (/\ ReturnedCoords
     /\ box.size > 0
     /\ \/ grid.type = "AutoGrid"
        \/ grid.type = "UniformGrid" /\ (symmetry = 0 \/ UniformCells % 2 = 0))
    => EndsAtDomainEdges

\* a symmetric UniformGrid axis with absorber layers on both sides whose
\* ends are the extended domain edges
C2_Witness ==
    /\ ReturnedCoords
    /\ grid.type = "UniformGrid"
    /\ box.size > 0
    /\ symmetry # 0
    /\ UniformCells = 2
    /\ num_pml_layers = <<2, 1>>
    /\ EndsAtDomainEdges

\* AutoGrid meshed at least one interval
AutoMeshed ==
    MadeCoords /\ grid.type = "AutoGrid" /\ Len(mesh.interval_coords) > 1

\* the index in mesh.bound_coords of the boundary that opens interval i
RECURSIVE IntervalStart(_)
IntervalStart(i) ==
    IF i = 1 THEN 1 ELSE IntervalStart(i - 1) + Len(mesh.dl_list[i - 1])

\* the widths of the cells of mesh.bound_coords that fill interval i
IntervalCells(i) ==
    [k \in 1..Len(mesh.dl_list[i]) |->
        mesh.bound_coords[IntervalStart(i) + k]
            - mesh.bound_coords[IntervalStart(i) + k - 1]]

C5_ReflectionInvariant ==
    (ReturnedCoords /\ symmetry # 0 /\ num_pml_layers[1] = num_pml_layers[2]) =>
        LET b == ret.coords
            n == Len(b)
        IN \A i \in 1..n : b[i] + b[n + 1 - i] = 2 * box.center

\* a custom grid off the origin, folded about its center and padded by one
\* absorber cell on each side
C5_Witness ==
    /\ ReturnedCoords
    /\ IsCustom
    /\ symmetry # 0
    /\ box.center # 0
    /\ num_pml_layers = <<1, 1>>
    /\ Len(ret.coords) >= 7
    /\ \E i \in 1..(Len(initial.coords) - 1) :
          initial.coords[i] + initial.coords[Len(initial.coords) + 1 - i]
              # 2 * box.center

\* a direct call of _add_pml_to_bounds has completed
AddedPml == pc = "done" /\ op = "_add_pml_to_bounds"

\* C6: _add_pml_to_bounds on k >= 2 boundaries with counts (n0, n1) returns
\* k + n0 + n1 boundaries, the input unchanged in the middle, n0 cells of the
\* first cell's width before it and n1 cells of the last cell's width after
\* it; on fewer than 2 boundaries it returns the input.
C6_PmlPadding ==
    AddedPml =>
        LET bounds == initial.coords
            k == Len(bounds)
            n0 == num_pml_layers[1]
            n1 == num_pml_layers[2]
            out == ret.coords
        IN IF k < 2 THEN out = bounds
           ELSE /\ Len(out) = k + n0 + n1
                /\ SubSeq(out, n0 + 1, n0 + k) = bounds
                /\ \A i \in 1..n0 : out[i + 1] - out[i] = bounds[2] - bounds[1]
                /\ \A i \in (n0 + k)..(n0 + k + n1 - 1) :
                       out[i + 1] - out[i] = bounds[k] - bounds[k - 1]

\* layers on both sides of an array whose first and last cell differ
C6_Witness ==
    /\ AddedPml
    /\ Len(initial.coords) = 3
    /\ initial.coords[2] - initial.coords[1] # initial.coords[3] - initial.coords[2]
    /\ num_pml_layers = <<2, 3>>
    /\ Len(ret.coords) = 8

\* a direct call on a single boundary leaves it alone
C6_WitnessSingle ==
    /\ AddedPml
    /\ Len(initial.coords) = 1
    /\ num_pml_layers = <<2, 3>>
    /\ ret.coords = initial.coords

\* C7: UniformGrid with step dl on a domain of size > 0 returns N + 1 equally
\* spaced boundaries from center - size / 2 to center + size / 2, N being the
\* smallest positive cell count whose cell width size / N is at most dl; for
\* size = 0 it returns [center, center + dl].
C7_UniformCells ==
    (MadeCoords /\ grid.type = "UniformGrid") =>
        LET b == initial.coords
            N == Len(b) - 1
        IN /\ initial.status = "ok"
           /\ IF box.size = 0 THEN b = <<box.center, box.center + grid.dl>>
              ELSE /\ N >= 1
                   /\ box.size <= N * grid.dl
                   /\ \A M \in 1..(N - 1) : box.size > M * grid.dl
                   /\ b[1] = DomainMin
                   /\ b[N + 1] = DomainMax
                   /\ \A i \in 1..N : (b[i + 1] - b[i]) * N = box.size

\* a step that does not divide the size: the cells are made narrower
C7_Witness ==
    /\ MadeCoords
    /\ grid.type = "UniformGrid"
    /\ box.size > 0
    /\ box.size % grid.dl # 0
    /\ Len(initial.coords) = 3
    /\ initial.coords[2] - initial.coords[1] < grid.dl

\* the tolerance band around the domain
BandMin == nextafter_down(DomainMin)
BandMax == nextafter_up(DomainMax)

\* make_coords was called on a custom grid, which handed its boundaries to
\* _postprocess_unaligned_grid
Postprocessed == MadeCoords /\ IsCustom /\ unaligned # <<>>

\* C8: for the custom strategies, when the supplied boundaries lie entirely
\* on one side of the domain, or none of them remains after those outside the
\* tolerance band are dropped, _postprocess_unaligned_grid fails with the
\* domain-mismatch SetupError and with no other kind of failure.
C8_MismatchIsSetupError ==
    Postprocessed =>
        LET one_side == Last(unaligned) < BandMin \/ unaligned[1] > BandMax
            none_remain ==
                /\ box.size > 0
                /\ \A i \in 1..Len(unaligned) :
                       unaligned[i] < BandMin \/ unaligned[i] > BandMax
        IN (one_side \/ none_remain) => initial.status = "SetupError"

\* C9: for the custom strategies on a domain of positive size, the boundaries
\* _postprocess_unaligned_grid returns cover the domain: the first is at or
\* below the lower edge and the last at or above the upper edge, within
\* tolerance.
C9_CoversDomain ==
    (Postprocessed /\ box.size > 0 /\ initial.status = "ok") =>
        /\ initial.coords # <<>>
        /\ initial.coords[1] <= DomainMin + CloseTol
        /\ Last(initial.coords) >= DomainMax - CloseTol

\* C10: for a domain of size 0 and two or more supplied boundaries that pass
\* the overlap check, _postprocess_unaligned_grid returns exactly two
\* consecutive supplied boundaries lo < hi that bracket the center, wherever
\* the center lies; a center marginally outside the first or last boundary
\* counts as bracketed by it.
C10_BracketsCenter ==
    (Postprocessed /\ Len(unaligned) >= 2 /\ box.size = 0 /\ initial.status = "ok") =>
        /\ Len(initial.coords) = 2
        /\ \E i \in 1..(Len(unaligned) - 1) :
               initial.coords = <<unaligned[i], unaligned[i + 1]>>
        /\ initial.coords[1] < initial.coords[2]
        /\ initial.coords[1] <= nextafter_up(box.center)
        /\ nextafter_down(box.center) <= initial.coords[2]

\* a call of f has completed
Called(f) == pc = "done" /\ op = f

\* the override structures that count along axis a
UsedAlong(override_structures, a) ==
    \E i \in 1..Len(override_structures) :
        \/ override_structures[i].type = "Structure"
        \/ /\ override_structures[i].type = "MeshOverrideStructure"
           /\ override_structures[i].dl[a] # <<>>

\* the orders in which the override structures s can be listed
Reorderings(s) ==
    {[i \in 1..Len(s) |-> s[p[i]]] :
        p \in {q \in [1..Len(s) -> 1..Len(s)] : \A i, j \in 1..Len(s) : q[i] = q[j] => i = j}}

\* C18: override_structures_used is, for each axis a, true if and only if the
\* override list holds a plain Structure or a mesh-override structure whose
\* dl[a] is not None; it is [False, False, False] for the empty list and when
\* every dl entry is None; and it is the same for every order of the list.
C18_OverrideUsed ==
    Called("override_structures_used") =>
        /\ result.status = "ok"
        /\ \A a \in Axes : result.val[a] = UsedAlong(arg, a)
        /\ arg = <<>> => result.val = <<FALSE, FALSE, FALSE>>
        /\ (\A i \in 1..Len(arg) : arg[i] = MeshOverrideStructure(<<(<<>>), <<>>, <<>>>>))
               => result.val = <<FALSE, FALSE, FALSE>>
        /\ \A s \in Reorderings(arg) : override_structures_used(s) = result.val

\* two mesh-override structures that set different axes, the second one's
\* axis being reported as well
C18_Witness ==
    /\ Called("override_structures_used")
    /\ Len(arg) = 2
    /\ arg[1] = MeshOverrideStructure(<<(<<4>>), <<>>, <<>>>>)
    /\ arg[2] = MeshOverrideStructure(<<(<<>>), <<>>, <<4>>>>)
    /\ result.val = <<TRUE, FALSE, TRUE>>

HasBracket(val) == \E i \in 1..Len(val) : val[i] \in {"[", "]"}

\* C19: the validator that validate_name_str returns raises an exception
\* whenever the name contains '[' or ']', and returns the name unchanged
\* otherwise.
C19_BracketsRejected ==
    Called("validate_name_str") =>
        IF HasBracket(arg) THEN result.status \notin {"ok", "None"}
        ELSE result = Returns(arg)

\* the number of entries of a size triple that are 0
ZerosOf(val) == Cardinality({i \in 1..3 : val[i] = 0})

\* C20: a size triple passes assert_plane if and only if exactly one entry is
\* 0, assert_line if and only if exactly two are, assert_volumetric if and
\* only if none is; on pass the value is returned unchanged, otherwise a
\* ValidationError is raised.
C20_SizeValidators ==
    LET passes == IF Called("assert_plane") THEN ZerosOf(arg) = 1
                  ELSE IF Called("assert_line") THEN ZerosOf(arg) = 2
                  ELSE ZerosOf(arg) = 0
    IN (Called("assert_plane") \/ Called("assert_line") \/ Called("assert_volumetric")) =>
           IF passes THEN result = Returns(arg)
           ELSE result = Raises("ValidationError")

\* size (1, 1, 1) is rejected as a plane
C20_Witness ==
    /\ Called("assert_plane")
    /\ arg = <<1, 1, 1>>
    /\ result.status = "ValidationError"

\* a call of make_grid is past the set-up of the wavelength
WavelengthSetUp ==
    /\ op = "make_grid"
    /\ pc = "done" \/ pc = "coords" \/ (pc = "warn" /\ make_grid_order("call") = "wavelength")

\* the sources are none, or not all within tolerance of the first one
SourcesDiffer(sources) ==
    \/ sources = <<>>
    \/ \E i \in 1..Len(sources) : ~isclose(sources[i], sources[1])

\* the call was made with no wavelength on a GridSpec with an AutoGrid axis
WavelengthNeeded ==
    /\ request.grid_spec.wavelength = <<>>
    /\ \E a \in Axes : request.grid_spec.grids[a].type = "AutoGrid"

\* make_grid has raised the error of wavelength_from_sources
WavelengthError == outcome = Fails("SetupError", "wavelength_from_sources")

\* C11: with GridSpec.wavelength unset and an AutoGrid axis, make_grid raises
\* SetupError if there is no source or if some source's central frequency is
\* not within tolerance of the first one's, and otherwise passes the
\* wavelength C_0 / freq0 of the first source on; with a wavelength given or
\* no AutoGrid axis, the sources are not inspected, the stored wavelength is
\* passed on and no such error is raised.
C11_WavelengthFromSources ==
    WavelengthSetUp =>
        IF WavelengthNeeded
        THEN /\ progress.inspected
             /\ IF SourcesDiffer(request.sources)
                THEN pc = "done" /\ WavelengthError
                ELSE /\ progress.wavelength = <<C_0 \div request.sources[1]>>
                     /\ outcome.raised_by # "wavelength_from_sources"
        ELSE /\ ~progress.inspected
             /\ progress.wavelength = request.grid_spec.wavelength
             /\ outcome.raised_by # "wavelength_from_sources"

\* three sources within tolerance of the first: a Grid is returned, made
\* with the wavelength of the first
C11_Witness ==
    /\ pc = "done"
    /\ op = "make_grid"
    /\ WavelengthNeeded
    /\ Len(request.sources) = 3
    /\ progress.wavelength = <<C_0 \div 22>>
    /\ outcome.status = "ok"

\* C12: in every run of make_grid that ends with the wavelength error, no
\* axis's boundaries have been generated, make_coords has been invoked for
\* no axis and no override-structure warning has been logged.
C12_ErrorBeforeGeneration ==
    (op = "make_grid" /\ outcome.raised_by = "wavelength_from_sources") =>
        /\ progress.coords_dict = <<>>
        /\ progress.warnings = {}
        /\ grid_spec = request.grid_spec

\* the error is raised in a call that would have logged a warning
C12_Witness ==
    /\ pc = "done"
    /\ op = "make_grid"
    /\ WavelengthError
    /\ request.sources = <<20, 23>>
    /\ override_warnings(request.grid_spec) # {}

\* C13: when the boundaries AutoGrid builds from the mesher's steps do not
\* reproduce the domain edges within tolerance, the error raised is of a kind
\* other than the kind of the wavelength errors (no source, differing source
\* frequencies) and other than the kind of the domain-mismatch error.
C13_DistinctErrorKind ==
    (MadeCoords /\ grid.type = "AutoGrid" /\ initial.status # "ok") =>
        /\ initial.status # wavelength_from_sources(<<>>).status
        /\ initial.status # wavelength_from_sources(<<20, 23>>).status
        /\ initial.status # _postprocess_unaligned_grid(0, 4, FALSE, <<10, 12>>).status

\* C14: whenever make_coords or make_grid has returned or raised, the
\* GridSpec's stored data (CustomGridBoundaries.coords and CustomGrid.dl
\* among them) hold the values they held before the call.
C14_InputsUnchanged ==
    (op = "make_grid" /\ compared.kind \in {"None", "again"}) =>
        grid_spec = request.grid_spec

\* C15: a second call of make_grid on the same GridSpec with the same
\* arguments returns the same boundaries on all three axes, or fails with
\* the same error.
C15_Deterministic ==
    (op = "make_grid" /\ compared.kind = "again") => compared.outcome = outcome

\* C16: when only the strategy, the symmetry eigenvalue, the periodic flag or
\* the layer counts of one axis are changed and both calls return a Grid, the
\* boundaries of the other two axes are the same in both.
C16_AxesIndependent ==
    (/\ op = "make_grid"
     /\ compared.kind = "varied"
     /\ outcome.status = "ok"
     /\ compared.outcome.status = "ok")
    => \A a \in Axes \ {compared.axis} :
           compared.outcome.boundaries[a] = outcome.boundaries[a]

\* the axes along which the warning is due
WarningDue ==
    {a \in Axes :
        /\ UsedAlong(request.grid_spec.override_structures, a)
        /\ request.grid_spec.grids[a].type # "AutoGrid"}

\* a warned axis has the boundaries it has in the call without override
\* structures, when both calls return a Grid
SameWithoutOverrides ==
    (/\ compared.kind = "no_overrides"
     /\ outcome.status = "ok"
     /\ compared.outcome.status = "ok")
    => \A a \in WarningDue : compared.outcome.boundaries[a] = outcome.boundaries[a]

\* C17 as stated: make_grid logs the warning for an axis exactly when
\* override_structures_used is true for it and its strategy is not AutoGrid;
\* a Grid is still returned; and the axis's boundaries are those of the same
\* call with no override structures.
C17_WarningAlways ==
    (pc = "done" /\ op = "make_grid") =>
        /\ progress.warnings = WarningDue
        /\ WarningDue # {} => outcome.status = "ok"
        /\ SameWithoutOverrides

\* C17 amended: in a call of make_grid that does not end with the wavelength
\* error, the warning is logged for an axis exactly when
\* override_structures_used is true for it and its strategy is not AutoGrid;
\* the warning does not end the call, which fails only if make_coords raises;
\* and when this call and the same call with no override structures both
\* return a Grid, the axis's boundaries are the same in both.
C17_WarningNonFatal ==
    (pc = "done" /\ op = "make_grid" /\ ~WavelengthError) =>
        /\ progress.warnings = WarningDue
        /\ outcome.status = "ok" \/ outcome.raised_by = "make_coords"
        /\ SameWithoutOverrides

\* a mesh-override structure that sets dl along y only, y not being an
\* AutoGrid axis and z being one: the warning is logged along y alone
C17_Witness ==
    /\ pc = "done"
    /\ op = "make_grid"
    /\ compared.kind = "no_overrides"
    /\ request.grid_spec.grids[3].type = "AutoGrid"
    /\ request.grid_spec.override_structures # <<>>
    /\ progress.warnings = {2}
    /\ outcome.status = "ok"
    /\ compared.outcome.boundaries[2] = outcome.boundaries[2]
    /\ compared.outcome.boundaries[3] = outcome.boundaries[3]

\* the steps of make_grid, taken one by one, amount to a whole call
StepwiseIsMakeGrid ==
    (pc = "done" /\ op = "make_grid" /\ compared = NoCompared) =>
        /\ outcome = make_grid(request.grid_spec, request).outcome
        /\ grid_spec = make_grid(request.grid_spec, request).grid_spec

\* the in-plane axis (1-based) other than the bend axis, for a box one or two
\* of whose sizes are 0: the plane is normal to the first axis of size 0
RadialAxisOf(mode_spec, size) ==
    LET normal == CHOOSE i \in 1..3 : size[i] = 0 /\ \A j \in 1..(i - 1) : size[j] # 0
        in_plane == SortedSeq({1, 2, 3} \ {normal})
    IN IF mode_spec.bend_axis = 0 THEN in_plane[2] ELSE in_plane[1]

\* C21: on a box with a size of 0, validate_mode_plane_radius raises
\* ValueError if and only if bend_radius is set and not 0 and its absolute
\* value is less than half the size along the radial axis, the in-plane axis
\* other than the bend axis; with no bend radius it returns None whatever the
\* box.
C21_ModePlaneRadius ==
    Called("validate_mode_plane_radius") =>
        LET r == arg.mode_spec.bend_radius
        IN IF r = <<>> \/ r = <<0>> THEN result = Returns(<<>>)
           ELSE ZerosOf(arg.size) > 0 =>
                IF 2 * Abs(r[1]) < arg.size[RadialAxisOf(arg.mode_spec, arg.size)]
                THEN result = Raises("ValueError")
                ELSE result = Returns(<<>>)

\* a plane normal to y with sizes 2 and 4, bend axis 0 and radius -1: the
\* radial axis is z, half its size is 2, and the call raises, while along
\* the bend axis x half the size is 1 and would pass
C21_Witness ==
    /\ Called("validate_mode_plane_radius")
    /\ arg.size = <<2, 0, 4>>
    /\ arg.mode_spec = [bend_radius |-> <<-1>>, bend_axis |-> 0]
    /\ result = Raises("ValueError")

\* a call of fit is in progress or has ended
Fitting == op = "fit"

\* the number of the earliest attempt with the lowest RMS error
EarliestBest(attempts) ==
    CHOOSE m \in 1..Len(attempts) :
        /\ \A k \in 1..Len(attempts) : attempts[m].rms_error <= attempts[k].rms_error
        /\ \A k \in 1..(m - 1) : attempts[m].rms_error < attempts[k].rms_error

\* C22: when fit returns, it returns the medium and the RMS error of the
\* attempt with the lowest RMS error among the attempts it made, the earliest
\* of them on a tie; and the best RMS error it holds after an attempt is
\* never above the one it held after the attempt before.
C22_BestAttempt ==
    Fitting =>
        /\ \A k \in 1..(Len(fit.attempts) - 1) :
               fit.attempts[k + 1].best_rms <= fit.attempts[k].best_rms
        /\ fit.attempts # <<>> => fit.best_rms = Last(fit.attempts).best_rms
        /\ fit.ret # <<>> =>
               /\ fit.attempts # <<>>
               /\ LET best == fit.attempts[EarliestBest(fit.attempts)]
                  IN fit.ret = <<(<<best.medium>>), best.rms_error>>

\* three attempts with RMS errors 2, 1, 1: the second is returned
C22_Witness ==
    /\ Fitting
    /\ pc = "done"
    /\ Len(fit.attempts) = 3
    /\ fit.attempts[1].rms_error = 2
    /\ fit.attempts[2].rms_error = 1
    /\ fit.attempts[3].rms_error = 1
    /\ fit.ret = <<(<<2>>), 1>>

\* the guess goes to the first call of _fit_single and to no other
GuessOnlyFirst ==
    \A k \in 1..Len(fit.attempts) :
        fit.attempts[k].guess = IF k = 1 THEN fit.guess ELSE <<>>

\* fit has returned after n attempts: the first attempt that left the best
\* RMS error below the tolerance is the last one made and nothing is logged
\* as a warning, or no attempt did, n attempts were made and the warning is
\* logged
ReturnedAfter(n) ==
    /\ fit.ret # <<>>
    /\ fit.attempts # <<>>
    /\ \A k \in 1..(Len(fit.attempts) - 1) :
           fit.attempts[k].best_rms >= fit.tolerance_rms
    /\ IF Last(fit.attempts).best_rms < fit.tolerance_rms
       THEN ~fit.warned
       ELSE fit.warned /\ Len(fit.attempts) = n

PrePml ==
    IF Len(ret.coords) < 2 THEN ret.coords
    ELSE SubSeq(ret.coords, num_pml_layers[1] + 1, Len(ret.coords) - num_pml_layers[2])

\* how often x occurs in the array s
Occurrences(s, x) == Cardinality({i \in 1..Len(s) : s[i] = x})

\* C23: when symmetry[axis] != 0 and make_coords returns, the symmetry
\* center occurs exactly once in the returned array and in the array before
\* the absorber layers; in the latter every boundary below the center is the
\* mirror image 2 * center - b of exactly one boundary b above it, every
\* boundary above the center has exactly one mirror image, and the number of
\* boundaries is odd.
C23_CenterOnceAndMirrored ==
    (ReturnedCoords /\ symmetry # 0) =>
        LET c == box.center
            pre == PrePml
        IN /\ Occurrences(ret.coords, c) = 1
           /\ Occurrences(pre, c) = 1
           /\ \A i \in 1..Len(pre) :
                  pre[i] < c =>
                      Cardinality({j \in 1..Len(pre) :
                                      pre[j] > c /\ pre[i] = 2 * c - pre[j]}) = 1
           /\ \A j \in 1..Len(pre) :
                  pre[j] > c => Occurrences(pre, 2 * c - pre[j]) = 1
           /\ Len(pre) % 2 = 1

\* supplied boundaries none of which is the center, folded about it into
\* five boundaries and padded with absorber layers on both sides
C23_Witness ==
    /\ ReturnedCoords
    /\ symmetry # 0
    /\ grid.type = "CustomGridBoundaries"
    /\ Occurrences(unaligned, box.center) = 0
    /\ num_pml_layers = <<2, 1>>
    /\ Len(PrePml) = 5
    /\ Len(ret.coords) = 8

\* the lower and upper bound of the symmetry-reduced domain along the axis
ReducedDomain ==
    IF symmetry # 0 THEN <<box.center, DomainMax>> ELSE <<DomainMin, DomainMax>>

\* an end point of the summed steps is further from the domain's bound than
\* the closeness tolerance
EndPointOff ==
    \/ Abs(mesh.bound_coords[1] - ReducedDomain[1]) > CloseTol
    \/ Abs(Last(mesh.bound_coords) - ReducedDomain[2]) > CloseTol

\* C24: on a domain of positive size AutoGrid._make_coords_initial raises
\* exactly when an end point of the summed steps differs from the bound of
\* the symmetry-reduced domain by more than the closeness tolerance, and
\* otherwise returns an array whose first and last entries are exactly the
\* lower and the upper bound of that domain.
C24_EndPointsExactOrError ==
    (MadeCoords /\ grid.type = "AutoGrid" /\ box.size > 0) =>
        IF EndPointOff
        THEN initial.status # "ok"
        ELSE /\ initial.status = "ok"
             /\ initial.coords[1] = ReducedDomain[1]
             /\ Last(initial.coords) = ReducedDomain[2]

\* with symmetry, steps that overshoot the upper bound by just the tolerance:
\* the last boundary is set back onto the bound
C24_Witness ==
    /\ MadeCoords
    /\ grid.type = "AutoGrid"
    /\ box.size > 0
    /\ symmetry # 0
    /\ Last(mesh.bound_coords) = DomainMax + CloseTol
    /\ initial.status = "ok"
    /\ initial.coords[1] = box.center
    /\ Last(initial.coords) = DomainMax

\* the call passed machine_error_relaxation = True
Relaxed == grid.type = "CustomGrid" /\ grid.custom_offset # <<>>

\* the entries of the returned array below and above the tolerance band
BelowBand == {i \in 1..Len(initial.coords) : initial.coords[i] < BandMin}
AboveBand == {i \in 1..Len(initial.coords) : initial.coords[i] > BandMax}

\* without relaxation no boundary lies outside the band; with it at most the
\* first lies below and at most the last above, each within the closeness
\* tolerance of the band's edge
WithinBandOrRelaxed ==
    IF ~Relaxed THEN BelowBand = {} /\ AboveBand = {}
    ELSE /\ BelowBand \subseteq {1}
         /\ AboveBand \subseteq {Len(initial.coords)}
         /\ \A i \in BelowBand : isclose(initial.coords[i], BandMin)
         /\ \A i \in AboveBand : isclose(initial.coords[i], BandMax)

InBand ==
    LET in_band(x) == BandMin <= x /\ x <= BandMax
    IN SelectSeq(unaligned, in_band)

\* C27: on a domain of positive size and with relaxation off, the array
\* _postprocess_unaligned_grid returns holds the supplied boundaries that lie
\* within the tolerance band as one run in their original order; before the
\* run come only repetitions of the width of the first cell of the run and
\* after it only repetitions of the width of the last; and the padding is
\* maximal: the first boundary less the first width is below bound_min and
\* the last boundary plus the last width is above bound_max.
C27_PaddingMaximal ==
    (Postprocessed /\ ~Relaxed /\ box.size > 0 /\ initial.status = "ok") =>
        LET out == initial.coords
            n == Len(InBand)
            dl_min == InBand[2] - InBand[1]
            dl_max == InBand[n] - InBand[n - 1]
        IN /\ n >= 2
           /\ \E k \in 0..(Len(out) - n) :
                  /\ SubSeq(out, k + 1, k + n) = InBand
                  /\ \A i \in 1..k : out[i + 1] - out[i] = dl_min
                  /\ \A i \in (k + n)..(Len(out) - 1) : out[i + 1] - out[i] = dl_max
           /\ out[1] - dl_min < BandMin
           /\ Last(out) + dl_max > BandMax

\* one supplied boundary is dropped, two remain, and the first cell is
\* repeated more than once below them
C27_Witness ==
    /\ Postprocessed
    /\ ~Relaxed
    /\ box.size > 0
    /\ initial.status = "ok"
    /\ Len(unaligned) = 3
    /\ Len(InBand) = 2
    /\ Len(initial.coords) > 4
    /\ initial.coords[3] < InBand[1]
    /\ Last(initial.coords) = InBand[2]

\* the call compared is the same call with the periodic flag of one axis flipped
PeriodicFlipped ==
    /\ compared.kind = "varied"
    /\ compared.request =
          with_axis(request, compared.axis,
                    request.grid_spec.grids[compared.axis],
                    request.symmetry[compared.axis],
                    ~request.periodic[compared.axis],
                    request.num_pml_layers[compared.axis])

\* C28: the periodic flag that make_coords passes to the per-axis generator
\* is true if and only if periodicity is requested for the axis and the
\* symmetry of the axis is 0; on an axis with non-zero symmetry the call
\* with the other value of periodic gives the same boundaries.
C28_PeriodicFlag ==
    /\ op = "make_grid" =>
          \A a \in 1..Len(progress.is_periodic) :
             progress.is_periodic[a]
                <=> (request.periodic[a] /\ request.symmetry[a] = 0)
    /\ (/\ op = "make_grid"
        /\ pc = "done"
        /\ PeriodicFlipped
        /\ request.symmetry[compared.axis] # 0)
       => compared.outcome = outcome

\* make_grid on an AutoGrid axis with symmetry for which periodicity is
\* requested has returned boundaries, and so has the call without it
C28_Witness ==
    /\ op = "make_grid"
    /\ pc = "done"
    /\ PeriodicFlipped
    /\ request.symmetry[compared.axis] # 0
    /\ request.periodic[compared.axis]
    /\ request.grid_spec.grids[compared.axis].type = "AutoGrid"
    /\ Len(progress.is_periodic) = 3
    /\ ~progress.is_periodic[compared.axis]
    /\ outcome.status = "ok"

\* a loop is at its head with its condition true, and its pass adds a
\* boundary equal to the one it read: the condition is true after every pass
FrontStalled ==
    /\ pc = "front"
    /\ front_cond(padding)
    /\ front_next(padding) = padding.bound_coords[1]
BackStalled ==
    /\ pc = "back"
    /\ back_cond(padding)
    /\ back_next(padding) = Last(padding.bound_coords)

\* C29: the two padding loops terminate for every input whose boundaries
\* increase strictly and of which two remain within the band, adding
\* finitely many boundaries: each pass moves the end it reads towards the
\* edge of the band; they do not terminate when the first two (or the last
\* two) remaining boundaries are equal.
C29_LoopsTerminate ==
    /\ (pc \in {"front", "back"} /\ StrictlyIncreasing(padding.coords))
          => (~FrontStalled /\ ~BackStalled)
    /\ (pc = "front" /\ padding.dl_min = 0) => FrontStalled
    /\ (pc = "back" /\ padding.dl_max = 0) => BackStalled

\* the loops never stall where each sum is exact
ExactNeverStalls ==
    (/\ pc \in {"front", "back"}
     /\ StrictlyIncreasing(padding.coords)
     /\ padding.bound_coords[1] - padding.dl_min
           = fl(padding.bound_coords[1] - padding.dl_min)
     /\ Last(padding.bound_coords) + padding.dl_max
           = fl(Last(padding.bound_coords) + padding.dl_max))
      => (~FrontStalled /\ ~BackStalled)

\* equal boundaries stall the loop
EqualStalls ==
    /\ (pc = "front" /\ padding.dl_min = 0) => FrontStalled
    /\ (pc = "back" /\ padding.dl_max = 0) => BackStalled

\* make_grid has returned a grid for UniformGrid or custom strategies on a
\* domain of positive size with no symmetry, and from_grid of that grid has
\* been asked for a grid with the same arguments
RoundTrip ==
    /\ op = "make_grid"
    /\ pc = "done"
    /\ compared.kind = "from_grid"
    /\ \A a \in Axes :
          /\ request.grid_spec.grids[a].type
                \in {"UniformGrid", "CustomGridBoundaries", "CustomGrid"}
          /\ request.structures[1].geometry.size[a] > 0
          /\ request.symmetry[a] = 0

\* C30: for the grid G that make_grid returns for UniformGrid or custom
\* strategies on a domain of positive size with no symmetry,
\* GridSpec.from_grid(G).make_grid with the same arguments returns
\* boundaries equal to G on all three axes.
C30_RoundTrip ==
    RoundTrip =>
        /\ compared.outcome.status = "ok"
        /\ compared.outcome.boundaries = outcome.boundaries

\* the round trip where no axis lays cell sizes out from an offset
C30_RoundTripNoOffset ==
    (/\ RoundTrip
     /\ \A a \in Axes :
           request.grid_spec.grids[a].type = "CustomGrid"
              => request.grid_spec.grids[a].custom_offset = <<>>)
      => /\ compared.outcome.status = "ok"
         /\ compared.outcome.boundaries = outcome.boundaries

\* such a round trip has been made, with absorber layers on an axis
RoundTripMade ==
    /\ RoundTrip
    /\ request.grid_spec.grids[1].type = "CustomGridBoundaries"
    /\ request.grid_spec.grids[2].type = "CustomGrid"
    /\ request.grid_spec.grids[2].custom_offset = <<>>
    /\ Len(outcome.boundaries[1]) > 2

====
